---- MODULE Spec2Model ----
(***************************************************************************)
(* A model of the Aaa runtime (src/c): the reference counted value heap    *)
(* (variables, strings, vectors, maps, buffers) and the operand stack with *)
(* its opcodes.  Every C function is an operator that maps a machine       *)
(* record m (the whole memory of the process) to the machine after the     *)
(* call; an opcode is an action that runs its operator on the current      *)
(* state.  A fatal exit (abort) is a value of m.status other than          *)
(* "running"; once the status is not "running" every later call of the     *)
(* same opcode is a no-op, as the process is gone.                         *)
(***************************************************************************)
EXTENDS Integers, Sequences, FiniteSets, TLC

VARIABLES stack, variables, strings, vectors, maps, structs, vector_iters,
          map_iters, buffers, locals, status, flags, last, legacy

vars == <<stack, variables, strings, vectors, maps, structs, vector_iters,
          map_iters, buffers, locals, status, flags, last, legacy>>

(***************************************************************************)
(* Bounds of the model                                                     *)
(***************************************************************************)
MaxVars == 3
MaxDepth == 3
MaxRefs == 2
MaxAbs == 7
MaxText == 7
MapDepth == 4
MaxMaps == 2
MaxIters == 1
MaxKeys == 2
MaxGrowKeys == 13
VecDepth == 4
MaxVecs == 2
MaxElems == 3
MaxVecRefs == 3
MaxFillElems == 17
CopyDepth == 5
MaxCopyVecs == 6
MaxCopyElems == 2
StructDepth == 4
MaxFields == 2
TextDepth == 3
MaxSplitText == 3
MaxParseText == 3
MaxQuoteText == 2
MaxCleared == 1
MaxFragments == 7

(***************************************************************************)
(* Program constants                                                       *)
(***************************************************************************)
NULL == 0
INT_MAX == 2147483647
INT_MIN == (-2147483647) - 1
StackMaxSize == 1024
VectorInitialCapacity == 16
MapInitialBuckets == 16

AAA_INTEGER == "AAA_INTEGER"
AAA_BOOLEAN == "AAA_BOOLEAN"
AAA_STRING == "AAA_STRING"
AAA_VECTOR == "AAA_VECTOR"
AAA_MAP == "AAA_MAP"
AAA_STRUCT == "AAA_STRUCT"
AAA_SET == "AAA_SET"
AAA_VECTOR_ITER == "AAA_VECTOR_ITER"
AAA_MAP_ITER == "AAA_MAP_ITER"
AAA_SET_ITER == "AAA_SET_ITER"

(***************************************************************************)
(* The machine record                                                      *)
(***************************************************************************)
\* The out parameters of aaa_map_iter_next and of aaa_vector_iter_next that
\* the program keeps between the calls of a loop:
\* struct aaa_variable *key = NULL, *value = NULL, and *item = NULL
\* and string, sep, vector and start of aaa_string_split while its loop runs
NoLocals ==
    [key |-> NULL, value |-> NULL, item |-> NULL, string |-> NULL,
     sep |-> NULL, vector |-> NULL, start |-> NULL]

Machine(ub) ==
    [stack |-> stack, variables |-> variables, strings |-> strings,
     vectors |-> vectors, maps |-> maps, structs |-> structs,
     vector_iters |-> vector_iters, map_iters |-> map_iters,
     buffers |-> buffers, locals |-> locals, status |-> status,
     flags |-> {}, ub |-> ub,
     fresh |-> [variable |-> NULL, string |-> NULL, vector |-> NULL,
                map |-> NULL, struct |-> NULL, vector_iter |-> NULL,
                map_iter |-> NULL, buffer |-> NULL]]

\* Bind([x \in {e} |-> f(x)]) is f(e), with e evaluated once and named x:
\* the statement `T x = e;' of the C code, followed by the statements f
Bind(f) == f[CHOOSE x \in DOMAIN f : TRUE]

Running(m) == m.status = "running"

Fatal(m, why) == IF Running(m) THEN [m EXCEPT !.status = why] ELSE m

Flag(m, f) == [m EXCEPT !.flags = @ \cup {f}]

\* An undefined operation of the C code: the build either faults here or
\* carries on; m.ub is the outcome chosen for this opcode.
Undefined(m, f) ==
    IF ~Running(m) THEN m
    ELSE IF m.ub = "fault" THEN Fatal(Flag(m, f), "fault") ELSE Flag(m, f)

(***************************************************************************)
(* ref_count.c                                                             *)
(***************************************************************************)
aaa_ref_count_init == 1

aaa_ref_count_inc(count) == count + 1

\* count is a size_t: the decrement of 0 wraps to SIZE_MAX, written -1 here
aaa_ref_count_dec(count) == count - 1

(***************************************************************************)
(* size_t arithmetic: a 64 bit word is a sequence of 8 bytes, least        *)
(* significant first                                                        *)
(***************************************************************************)
WordZero == <<0, 0, 0, 0, 0, 0, 0, 0>>

\* (size_t) of an int: two's complement, sign extended
WordOfInt(i) ==
    [k \in 1..8 |-> IF k <= 4 THEN (i \div (256 ^ (k - 1))) % 256
                    ELSE IF i < 0 THEN 255 ELSE 0]

RECURSIVE XorBits(_, _, _)
XorBits(a, b, n) ==
    IF n = 0 THEN 0
    ELSE (((a % 2) + (b % 2)) % 2) + 2 * XorBits(a \div 2, b \div 2, n - 1)

WordXor(a, b) == [k \in 1..8 |-> XorBits(a[k], b[k], 8)]

RECURSIVE AddCarry(_, _, _, _)
AddCarry(a, b, k, carry) ==
    IF k > 8 THEN <<>>
    ELSE LET s == (a[k] + b[k]) + carry
         IN  <<(s % 256)>> \o AddCarry(a, b, k + 1, s \div 256)

WordAdd(a, b) == AddCarry(a, b, 1, 0)

RECURSIVE MulCarry(_, _, _, _)
MulCarry(a, c, k, carry) ==
    IF k > 8 THEN <<>>
    ELSE LET p == (a[k] * c) + carry
         IN  <<(p % 256)>> \o MulCarry(a, c, k + 1, p \div 256)

\* a * c for a small factor c
WordMul(a, c) == MulCarry(a, c, 1, 0)

RECURSIVE ModFrom(_, _, _, _)
ModFrom(a, n, k, r) ==
    IF k = 0 THEN r ELSE ModFrom(a, n, k - 1, ((r * 256) + a[k]) % n)

\* a % n for a small n
WordMod(a, n) == ModFrom(a, n, 8, 0)

\* (size_t) of a 32 bit int given by its 4 low bytes
WordOfLow32(w) ==
    [k \in 1..8 |-> IF k <= 4 THEN w[k] ELSE IF w[4] >= 128 THEN 255 ELSE 0]

\* 0x123456789 as a long
HashXorConstant == <<137, 103, 69, 35, 1, 0, 0, 0>>

\* integer << 13 is defined for 0 <= integer < 2^18 only
ShiftIsDefined(i) == i >= 0 /\ i < 262144

\* var.c, case AAA_INTEGER of aaa_variable_hash; integer >> 17 is the
\* arithmetic shift of the compiler, integer << 13 is taken modulo 2^32
HashInt(i) ==
    WordAdd(WordAdd(WordXor(WordOfInt(i), HashXorConstant),
                    WordOfLow32(WordMul(WordOfInt(i), 8192))),
            WordOfInt(i \div 131072))

RECURSIVE HashBytes(_, _)
HashBytes(hash, raw) ==
    IF raw = <<>> THEN hash
    ELSE HashBytes(WordAdd(WordMul(hash, 123457), WordOfInt(Head(raw))),
                   Tail(raw))

\* the bytes of a C string end at its first NUL; the model's texts hold none
HashString(raw) == HashBytes(WordZero, raw)

(***************************************************************************)
(* Heap objects.  Each struct type has a table; the address of an object   *)
(* is its index in the table.  free() leaves the slot in the table with    *)
(* frees, the number of times it was freed, above 0 and its other fields   *)
(* blank; malloc() returns the first freed slot, or a new one.  m.fresh    *)
(* holds the address the last malloc() of each type returned.              *)
(***************************************************************************)
Freed(obj) == obj.frees > 0

Least(S) == CHOOSE i \in S : \A j \in S : i <= j

Slot(table) ==
    IF \E i \in 1..Len(table) : Freed(table[i])
    THEN Least({i \in 1..Len(table) : Freed(table[i])})
    ELSE Len(table) + 1

Store(table, obj) ==
    IF Slot(table) > Len(table) THEN Append(table, obj)
    ELSE [table EXCEPT ![Slot(table)] = obj]

\* a read or write of freed memory
Touch(m, obj) == IF Freed(obj) THEN Undefined(m, "use_after_free") ELSE m

\* the object after aaa_ref_count_dec and, when the count is 0, free():
\* blank is the freed slot
Released(obj, blank) ==
    LET count == aaa_ref_count_dec(obj.ref_count)
    IN  IF count = 0 THEN [blank EXCEPT !.frees = obj.frees + 1]
        ELSE [obj EXCEPT !.ref_count = count]

Retained(obj) == [obj EXCEPT !.ref_count = aaa_ref_count_inc(@)]

(***************************************************************************)
(* str.c                                                                   *)
(***************************************************************************)
aaa_string_new(m, raw, freeable) ==
    IF ~Running(m) THEN m
    ELSE [m EXCEPT !.strings = Store(@,
            [ref_count |-> aaa_ref_count_init, frees |-> 0, raw |-> raw,
             length |-> Len(raw), freeable |-> freeable]),
                   !.fresh.string = Slot(m.strings)]

\* the address the last aaa_*_new of m returned
NewString(m) == m.fresh.string
NewVariable(m) == m.fresh.variable
NewVector(m) == m.fresh.vector
NewMap(m) == m.fresh.map
NewBuffer(m) == m.fresh.buffer

FreedString ==
    [ref_count |-> 0, frees |-> 1, raw |-> <<>>, length |-> 0,
     freeable |-> FALSE]

aaa_string_copy(m, s) ==
    IF ~Running(m) THEN m ELSE aaa_string_new(m, m.strings[s].raw, TRUE)

aaa_string_dec_ref(m, s) ==
    IF ~Running(m) THEN m
    ELSE Bind([m1 \in {Touch(m, m.strings[s])} |->
         IF ~Running(m1) THEN m1
             ELSE [m1 EXCEPT !.strings[s] = Released(@, FreedString)]])

aaa_string_inc_ref(m, s) ==
    IF ~Running(m) THEN m
    ELSE Bind([m1 \in {Touch(m, m.strings[s])} |->
         IF ~Running(m1) THEN m1
             ELSE [m1 EXCEPT !.strings[s] = Retained(@)]])

aaa_string_equals(m, s, t) == m.strings[s].raw = m.strings[t].raw

(***************************************************************************)
(* var.c                                                                   *)
(***************************************************************************)
aaa_variable_new(m, kind, payload) ==
    IF ~Running(m) THEN m
    ELSE [m EXCEPT !.variables = Store(@,
            [ref_count |-> aaa_ref_count_init, frees |-> 0, kind |-> kind,
             payload |-> payload]),
                   !.fresh.variable = Slot(m.variables)]

FreedVariable == [ref_count |-> 0, frees |-> 1, kind |-> "freed", payload |-> NULL]

aaa_variable_new_int(m, integer) == aaa_variable_new(m, AAA_INTEGER, integer)
aaa_variable_new_bool(m, boolean) == aaa_variable_new(m, AAA_BOOLEAN, boolean)
aaa_variable_new_str(m, string) == aaa_variable_new(m, AAA_STRING, string)
aaa_variable_new_vector(m, vector) == aaa_variable_new(m, AAA_VECTOR, vector)
aaa_variable_new_map(m, map) == aaa_variable_new(m, AAA_MAP, map)
aaa_variable_new_struct(m, struct) == aaa_variable_new(m, AAA_STRUCT, struct)
aaa_variable_new_set(m, set) == aaa_variable_new(m, AAA_SET, set)
aaa_variable_new_vector_iter(m, iter) ==
    aaa_variable_new(m, AAA_VECTOR_ITER, iter)
aaa_variable_new_map_iter(m, iter) == aaa_variable_new(m, AAA_MAP_ITER, iter)

\* the test of the kind without the exception for a Set
KindEqual(kind, expected) == kind = expected

KindAccepted(kind, expected) ==
    kind = expected \/ (kind = AAA_SET /\ expected = AAA_MAP)

\* the machine after aaa_variable_get_<expected>(var); a NULL var is a
\* dereference of address 0
aaa_variable_check_kind(m, var, expected) ==
    IF ~Running(m) THEN m
    ELSE IF var = NULL THEN Fatal(Flag(m, "null_dereference"), "fault")
    ELSE IF KindAccepted(m.variables[var].kind, expected) THEN m
    ELSE Fatal(m, "type_error")

RECURSIVE aaa_variable_dec_ref(_, _)
RECURSIVE DecRefAll(_, _)
RECURSIVE aaa_variable_copy(_, _)

\* aaa_variable_dec_ref on each variable of a sequence, in order
DecRefAll(m, vs) ==
    IF vs = <<>> \/ ~Running(m) THEN m
    ELSE DecRefAll(aaa_variable_dec_ref(m, Head(vs)), Tail(vs))

(***************************************************************************)
(* vector.c                                                                *)
(***************************************************************************)
aaa_vector_new(m) ==
    IF ~Running(m) THEN m
    ELSE [m EXCEPT !.vectors = Store(@,
            [ref_count |-> aaa_ref_count_init, frees |-> 0, size |-> 0,
             capacity |-> VectorInitialCapacity, data |-> <<>>]),
                   !.fresh.vector = Slot(m.vectors)]

FreedVector ==
    [ref_count |-> 0, frees |-> 1, size |-> 0, capacity |-> 0, data |-> <<>>]

\* data holds the slots 0..size-1; a slot at or above size is never read
aaa_vector_clear(m, vec) ==
    IF ~Running(m) THEN m
    ELSE Bind([m1 \in {DecRefAll(m, m.vectors[vec].data)} |->
         IF ~Running(m1) THEN m1
             ELSE [m1 EXCEPT !.vectors[vec].size = 0,
                             !.vectors[vec].data = <<>>]])

aaa_vector_dec_ref(m, vec) ==
    IF ~Running(m) THEN m
    ELSE Bind([m1 \in {Touch(m, m.vectors[vec])} |->
         LET count == aaa_ref_count_dec(m.vectors[vec].ref_count)
         IN  Bind([m2 \in {[m1 EXCEPT !.vectors[vec].ref_count = count]} |->
         IF ~Running(m1) THEN m1
             ELSE IF count = 0
             THEN Bind([m3 \in {aaa_vector_clear(m2, vec)} |->
                  IF ~Running(m3) THEN m3
                      ELSE [m3 EXCEPT !.vectors[vec] =
                              [FreedVector EXCEPT !.frees = m3.vectors[vec].frees + 1]]])
             ELSE m2])])

aaa_vector_inc_ref(m, vec) ==
    IF ~Running(m) THEN m
    ELSE Bind([m1 \in {Touch(m, m.vectors[vec])} |->
         IF ~Running(m1) THEN m1
             ELSE [m1 EXCEPT !.vectors[vec] = Retained(@)]])

aaa_vector_empty(m, vec) == m.vectors[vec].size = 0

aaa_vector_size(m, vec) == m.vectors[vec].size

\* a resize that leaves the capacity as it is
aaa_vector_resize_kept(m, vec, new_capacity) == m

\* new_data receives the slots 0..size-1 of data
aaa_vector_resize(m, vec, new_capacity) ==
    IF ~Running(m) THEN m
    ELSE [m EXCEPT !.vectors[vec].capacity = new_capacity]

aaa_vector_push(m, vec, pushed) ==
    IF ~Running(m) THEN m
    ELSE Bind([m1 \in {IF m.vectors[vec].size = m.vectors[vec].capacity
                   THEN aaa_vector_resize(m, vec, 2 * m.vectors[vec].capacity)
                   ELSE m} |->
         Bind([m2 \in {aaa_variable_copy(m1, pushed)} |->
         IF ~Running(m2) THEN m2
             ELSE [m2 EXCEPT !.vectors[vec].data = Append(@, NewVariable(m2)),
                             !.vectors[vec].size = @ + 1]])])

RECURSIVE aaa_variable_inc_ref(_, _)

\* offset is a size_t: a negative int operand is a value above every size
OffsetInRange(m, vec, offset) == offset >= 0 /\ offset < m.vectors[vec].size

\* the variable in slot offset (0 based) of the vector
VectorSlot(m, vec, offset) == m.vectors[vec].data[offset + 1]

aaa_vector_get(m, vec, offset) ==
    IF ~Running(m) THEN m
    ELSE IF ~OffsetInRange(m, vec, offset) THEN Fatal(m, "abort")
    ELSE aaa_variable_inc_ref(m, VectorSlot(m, vec, offset))

\* a pop that leaves the size as it is
aaa_vector_pop_keeping_size(m, vec) ==
    IF ~Running(m) THEN m
    ELSE IF m.vectors[vec].size = 0 THEN Fatal(m, "abort")
    ELSE m

\* the variable aaa_vector_pop returns is VectorSlot(m, vec, size - 1)
aaa_vector_pop(m, vec) ==
    IF ~Running(m) THEN m
    ELSE IF m.vectors[vec].size = 0 THEN Fatal(m, "abort")
    ELSE [m EXCEPT !.vectors[vec].size = @ - 1,
                   !.vectors[vec].data = SubSeq(@, 1, Len(@) - 1)]

\* a set that ends the program when the offset is out of range, as
\* aaa_vector_get does
aaa_vector_set_or_abort(m, vec, offset, value) ==
    IF ~Running(m) THEN m
    ELSE IF ~OffsetInRange(m, vec, offset) THEN Fatal(m, "abort")
    ELSE Bind([m1 \in {aaa_variable_dec_ref(m, VectorSlot(m, vec, offset))} |->
         Bind([m2 \in {aaa_variable_copy(m1, value)} |->
         IF ~Running(m2) THEN m2
             ELSE [m2 EXCEPT !.vectors[vec].data[offset + 1] = NewVariable(m2)]])])

aaa_vector_set_result(m, vec, offset) == OffsetInRange(m, vec, offset)

aaa_vector_set(m, vec, offset, value) ==
    IF ~Running(m) THEN m
    ELSE IF ~OffsetInRange(m, vec, offset) THEN m
    ELSE Bind([m1 \in {aaa_variable_dec_ref(m, VectorSlot(m, vec, offset))} |->
         Bind([m2 \in {aaa_variable_copy(m1, value)} |->
         IF ~Running(m2) THEN m2
             ELSE [m2 EXCEPT !.vectors[vec].data[offset + 1] = NewVariable(m2)]])])

aaa_vector_iter_new(m, vec) ==
    Bind([m1 \in {aaa_vector_inc_ref(m, vec)} |->
    IF ~Running(m1) THEN m1
        ELSE [m1 EXCEPT !.vector_iters = Store(@,
                [ref_count |-> aaa_ref_count_init, frees |-> 0,
                 vector |-> vec, next_offset |-> 0]),
                        !.fresh.vector_iter = Slot(m1.vector_iters)]])

NewVectorIter(m) == m.fresh.vector_iter

FreedVectorIter ==
    [ref_count |-> 0, frees |-> 1, vector |-> NULL, next_offset |-> 0]

aaa_vector_iter_inc_ref(m, iter) ==
    IF ~Running(m) THEN m
    ELSE Bind([m1 \in {Touch(m, m.vector_iters[iter])} |->
         IF ~Running(m1) THEN m1
             ELSE [m1 EXCEPT !.vector_iters[iter] = Retained(@)]])

aaa_vector_iter_dec_ref(m, iter) ==
    IF ~Running(m) THEN m
    ELSE Bind([m1 \in {Touch(m, m.vector_iters[iter])} |->
         Bind([m2 \in {[m1 EXCEPT !.vector_iters[iter] = Released(@, FreedVectorIter)]} |->
         IF ~Running(m1) THEN m1
             ELSE IF m2.vector_iters[iter].ref_count = 0
             THEN aaa_vector_dec_ref(m2, m1.vector_iters[iter].vector)
             ELSE m2])])

\* whether aaa_vector_iter_next returns true
aaa_vector_iter_next_result(m, iter) ==
    m.vector_iters[iter].next_offset <
        m.vectors[m.vector_iters[iter].vector].size

\* the new *item of aaa_vector_iter_next(iter, &item)
aaa_vector_iter_next_item(m, iter) ==
    IF aaa_vector_iter_next_result(m, iter)
    THEN VectorSlot(m, m.vector_iters[iter].vector,
                    m.vector_iters[iter].next_offset)
    ELSE NULL

\* a next that keeps its reference to the last item when it returns false
aaa_vector_iter_next_holding(m, iter, item) ==
    IF ~Running(m) THEN m
    ELSE IF ~aaa_vector_iter_next_result(m, iter) THEN m
    ELSE Bind([m1 \in {IF item # NULL THEN aaa_variable_dec_ref(m, item) ELSE m} |->
         Bind([m2 \in {aaa_variable_inc_ref(m1, aaa_vector_iter_next_item(m, iter))} |->
         IF ~Running(m2) THEN m2
             ELSE [m2 EXCEPT !.vector_iters[iter].next_offset = @ + 1]])])

\* item is the old *item
aaa_vector_iter_next(m, iter, item) ==
    IF ~Running(m) THEN m
    ELSE IF ~aaa_vector_iter_next_result(m, iter)
    THEN IF item # NULL THEN aaa_variable_dec_ref(m, item) ELSE m
    ELSE Bind([m1 \in {IF item # NULL THEN aaa_variable_dec_ref(m, item) ELSE m} |->
         Bind([m2 \in {aaa_variable_inc_ref(m1, aaa_vector_iter_next_item(m, iter))} |->
         IF ~Running(m2) THEN m2
             ELSE [m2 EXCEPT !.vector_iters[iter].next_offset = @ + 1]])])

\* the loop of aaa_vector_copy: vec_copy receives a copy of every item
RECURSIVE VectorCopyLoop(_, _, _, _)
VectorCopyLoop(m, iter, vec_copy, item) ==
    IF ~Running(m) THEN m
    ELSE LET more == aaa_vector_iter_next_result(m, iter)
             next == aaa_vector_iter_next_item(m, iter)
         IN  Bind([m1 \in {aaa_vector_iter_next(m, iter, item)} |->
             IF ~more THEN m1
             ELSE Bind([m2 \in {aaa_variable_copy(m1, next)} |->
                  Bind([m3 \in {aaa_vector_push(m2, vec_copy, NewVariable(m2))} |->
                  Bind([m4 \in {aaa_variable_dec_ref(m3, NewVariable(m2))} |->
                  VectorCopyLoop(m4, iter, vec_copy, next)])])])])

\* a copy that holds the variables of the original and not copies of them
aaa_vector_copy_sharing(m, vec) ==
    Bind([m1 \in {aaa_vector_new(m)} |->
    IF ~Running(m1) THEN m1
        ELSE [m1 EXCEPT !.vectors[NewVector(m1)].data = m.vectors[vec].data,
                        !.vectors[NewVector(m1)].size = m.vectors[vec].size,
                        !.variables =
                            [v \in DOMAIN @ |->
                                IF \E i \in 1..Len(m.vectors[vec].data) :
                                       m.vectors[vec].data[i] = v
                                THEN Retained(@[v]) ELSE @[v]]]])

\* the vector aaa_vector_copy returns is NewVector(aaa_vector_new(m))
aaa_vector_copy(m, vec) ==
    Bind([m1 \in {aaa_vector_new(m)} |->
    Bind([m2 \in {aaa_vector_iter_new(m1, vec)} |->
    Bind([m3 \in {VectorCopyLoop(m2, NewVectorIter(m2), NewVector(m1), NULL)} |->
    aaa_vector_iter_dec_ref(m3, NewVectorIter(m2))])])])

(***************************************************************************)
(* var.c: hashing and equality                                             *)
(***************************************************************************)
Hashable(m, var) ==
    m.variables[var].kind \in {AAA_BOOLEAN, AAA_INTEGER, AAA_STRING}

\* the value aaa_variable_hash returns for a variable of a hashable kind
\* a hash that takes a Text by the address of its string and not by its
\* bytes
aaa_variable_hash_of_address(m, var) ==
    LET v == m.variables[var]
    IN  CASE v.kind = AAA_BOOLEAN -> IF v.payload THEN WordOfInt(1) ELSE WordZero
          [] v.kind = AAA_INTEGER -> HashInt(v.payload)
          [] v.kind = AAA_STRING -> WordOfInt(v.payload)

aaa_variable_hash(m, var) ==
    LET v == m.variables[var]
    IN  CASE v.kind = AAA_BOOLEAN -> IF v.payload THEN WordOfInt(1) ELSE WordZero
          [] v.kind = AAA_INTEGER -> HashInt(v.payload)
          [] v.kind = AAA_STRING -> HashString(m.strings[v.payload].raw)

\* the machine after aaa_variable_hash(var): the other kinds abort
aaa_variable_hash_call(m, var) ==
    IF ~Running(m) THEN m
    ELSE IF var = NULL THEN Fatal(Flag(m, "null_dereference"), "fault")
    ELSE IF ~Hashable(m, var) THEN Fatal(m, "abort")
    ELSE IF m.variables[var].kind = AAA_INTEGER
            /\ ~ShiftIsDefined(m.variables[var].payload)
    THEN Undefined(m, "shift_undefined")
    ELSE m

\* an equality that holds of no two variables
aaa_variable_never_equals(m, lhs, rhs) == FALSE

\* the value aaa_variable_equals returns for operands of a hashable kind
aaa_variable_equals(m, lhs, rhs) ==
    LET l == m.variables[lhs]
        r == m.variables[rhs]
    IN  IF l.kind # r.kind THEN FALSE
        ELSE CASE l.kind = AAA_BOOLEAN -> l.payload = r.payload
               [] l.kind = AAA_INTEGER -> l.payload = r.payload
               [] l.kind = AAA_STRING ->
                    aaa_string_equals(m, l.payload, r.payload)

(***************************************************************************)
(* map.c.  A bucket is the sequence of the items of its chain, first item  *)
(* first; a pointer to an item is <<bucket, position>>, both 1 based.      *)
(***************************************************************************)
aaa_map_new(m) ==
    IF ~Running(m) THEN m
    ELSE [m EXCEPT !.maps = Store(@,
            [ref_count |-> aaa_ref_count_init, frees |-> 0, size |-> 0,
             bucket_count |-> MapInitialBuckets,
             buckets |-> [b \in 1..MapInitialBuckets |-> <<>>]]),
                   !.fresh.map = Slot(m.maps)]

FreedMap ==
    [ref_count |-> 0, frees |-> 1, size |-> 0, bucket_count |-> 0,
     buckets |-> <<>>]

aaa_set_new(m) == aaa_map_new(m)

\* var.c: the variable it returns is NewVariable of its machine
aaa_variable_new_set_zero_value(m) ==
    Bind([m1 \in {aaa_set_new(m)} |->
    aaa_variable_new_set(m1, NewMap(m1))])

RECURSIVE Flatten(_)
Flatten(seqs) == IF seqs = <<>> THEN <<>> ELSE Head(seqs) \o Flatten(Tail(seqs))

ItemHolds(chain) ==
    Flatten([i \in 1..Len(chain) |-> <<chain[i].key, chain[i].value>>])

\* the buckets keep their pointers to the freed items, which a later walk
\* over the buckets reads
aaa_map_clear(m, map) ==
    IF ~Running(m) THEN m
    ELSE IF m.maps[map].size = 0 THEN m
    ELSE LET bs == m.maps[map].buckets
             walked == IF \E b \in 1..Len(bs) : \E i \in 1..Len(bs[b]) :
                              bs[b][i].freed
                       THEN Undefined(m, "use_after_free") ELSE m
             held == [b \in 1..Len(bs) |->
                         ItemHolds(SelectSeq(bs[b], LAMBDA item : ~item.freed))]
         IN  Bind([m1 \in {DecRefAll(walked, Flatten(held))} |->
         IF ~Running(m1) THEN m1
             ELSE [m1 EXCEPT !.maps[map].size = 0,
                      !.maps[map].buckets =
                          [b \in 1..Len(bs) |->
                              [i \in 1..Len(bs[b]) |->
                                  [bs[b][i] EXCEPT !.freed = TRUE]]]]])

aaa_map_dec_ref(m, map) ==
    IF ~Running(m) THEN m
    ELSE Bind([m1 \in {Touch(m, m.maps[map])} |->
         LET count == aaa_ref_count_dec(m.maps[map].ref_count)
         IN  Bind([m2 \in {[m1 EXCEPT !.maps[map].ref_count = count]} |->
         IF ~Running(m1) THEN m1
             ELSE IF count = 0
             THEN Bind([m3 \in {aaa_map_clear(m2, map)} |->
                  IF ~Running(m3) THEN m3
                      ELSE [m3 EXCEPT !.maps[map] =
                              [FreedMap EXCEPT !.frees = m3.maps[map].frees + 1]]])
             ELSE m2])])

aaa_map_inc_ref(m, map) ==
    IF ~Running(m) THEN m
    ELSE Bind([m1 \in {Touch(m, m.maps[map])} |->
         IF ~Running(m1) THEN m1
             ELSE [m1 EXCEPT !.maps[map] = Retained(@)]])

\* (float)size / (float)bucket_count > 0.75
LoadFactorAbove(size, bucket_count) == 4 * size > 3 * bucket_count

aaa_map_empty(m, map) == m.maps[map].size = 0

aaa_map_size(m, map) == m.maps[map].size

\* the chains of the new table: the items of the old buckets 0..old_size-1
\* in order, each put at the head of its new bucket
RECURSIVE Rechain(_, _, _)
Rechain(items, buckets, new_bucket_count) ==
    IF items = <<>> THEN buckets
    ELSE LET new_bucket == WordMod(Head(items).hash, new_bucket_count) + 1
         IN  Rechain(Tail(items),
                     [buckets EXCEPT ![new_bucket] = <<Head(items)>> \o @],
                     new_bucket_count)

\* the body of aaa_map_rehash entered whatever the two bucket counts are
aaa_map_rehash_unguarded(m, map, new_bucket_count) ==
    IF ~Running(m) THEN m
    ELSE LET old == m.maps[map]
             walked == Flatten([b \in 1..(IF old.size < old.bucket_count
                                          THEN old.size ELSE old.bucket_count)
                                  |-> old.buckets[b]])
         IN  [m EXCEPT !.maps[map].bucket_count = new_bucket_count,
                 !.maps[map].buckets =
                     Rechain(walked, [b \in 1..new_bucket_count |-> <<>>],
                             new_bucket_count)]

aaa_map_rehash(m, map, new_bucket_count) ==
    IF ~Running(m) THEN m
    ELSE IF m.maps[map].bucket_count < new_bucket_count THEN m
    ELSE LET old == m.maps[map]
         IN  Bind([m1 \in {IF old.size > old.bucket_count
                   THEN Undefined(m, "read_out_of_bounds") ELSE m} |->
         LET walked == Flatten([b \in 1..(IF old.size < old.bucket_count
                                          THEN old.size ELSE old.bucket_count)
                                  |-> old.buckets[b]])
         IN  IF ~Running(m1) THEN m1
             ELSE [m1 EXCEPT !.maps[map].bucket_count = new_bucket_count,
                      !.maps[map].buckets =
                          Rechain(walked, [b \in 1..new_bucket_count |-> <<>>],
                                  new_bucket_count)]])

\* A pointer to an item is its bucket and its position in the chain; NoItem
\* is the NULL of these pointers
NoItem == <<>>

BucketOf(m, map, hash) == WordMod(hash, m.maps[map].bucket_count) + 1

\* the position in its chain of the item aaa_map_get_item finds, 0 if none
\* a freed item is no hit: aaa_map_get_item flags the read of it
FoundAt(m, map, key) ==
    LET hash == aaa_variable_hash(m, key)
        chain == m.maps[map].buckets[BucketOf(m, map, hash)]
        hits == {i \in 1..Len(chain) :
                    /\ ~chain[i].freed
                    /\ chain[i].hash = hash
                    /\ aaa_variable_equals(m, key, chain[i].key)}
    IN  IF hits = {} THEN 0 ELSE Least(hits)

\* the pointer to the item aaa_map_get_item finds, NoItem if none
FoundItem(m, map, key) ==
    IF FoundAt(m, map, key) = 0 THEN NoItem
    ELSE <<BucketOf(m, map, aaa_variable_hash(m, key)), FoundAt(m, map, key)>>

ItemAt(m, map, ptr) == m.maps[map].buckets[ptr[1]][ptr[2]]

\* the items the walk of a chain reads before it stops
WalkedItems(m, map, key) ==
    LET chain == m.maps[map].buckets[BucketOf(m, map, aaa_variable_hash(m, key))]
        n == IF FoundAt(m, map, key) = 0 THEN Len(chain)
             ELSE FoundAt(m, map, key)
    IN  {chain[i] : i \in 1..n}

\* the machine after aaa_map_get_item(map, key, &item)
aaa_map_get_item(m, map, key) ==
    Bind([m1 \in {aaa_variable_hash_call(m, key)} |->
    IF ~Running(m1) THEN m1
        ELSE IF \E item \in WalkedItems(m1, map, key) : item.freed
        THEN Undefined(m1, "use_after_free")
        ELSE m1])

\* a lookup that returns the key of the item found in place of its value
aaa_map_get_key(m, map, key) ==
    IF FoundItem(m, map, key) = NoItem THEN NULL
    ELSE ItemAt(m, map, FoundItem(m, map, key)).key

\* the value aaa_map_get returns
aaa_map_get_result(m, map, key) ==
    IF FoundItem(m, map, key) = NoItem THEN NULL
    ELSE ItemAt(m, map, FoundItem(m, map, key)).value

aaa_map_get(m, map, key) ==
    Bind([m1 \in {aaa_map_get_item(m, map, key)} |->
    IF ~Running(m1) THEN m1
        ELSE IF FoundItem(m1, map, key) = NoItem THEN m1
        ELSE aaa_variable_inc_ref(m1, aaa_map_get_result(m1, map, key))])

aaa_map_has_key(m, map, key) == FoundItem(m, map, key) # NoItem

RemoveAt(chain, i) == SubSeq(chain, 1, i - 1) \o SubSeq(chain, i + 1, Len(chain))

\* a pop that unlinks the item and leaves the size as it was
aaa_map_pop_keeping_size(m, map, key) ==
    Bind([m1 \in {aaa_map_get_item(m, map, key)} |->
    LET ptr == FoundItem(m1, map, key)
    IN  IF ~Running(m1) THEN m1
        ELSE IF ptr = NoItem THEN m1
        ELSE aaa_variable_dec_ref(
                [m1 EXCEPT !.maps[map].buckets[ptr[1]] = RemoveAt(@, ptr[2])],
                ItemAt(m1, map, ptr).key)])

\* the value aaa_map_pop returns is aaa_map_get_result(m, map, key)
aaa_map_pop(m, map, key) ==
    Bind([m1 \in {aaa_map_get_item(m, map, key)} |->
    LET ptr == FoundItem(m1, map, key)
    IN  IF ~Running(m1) THEN m1
        ELSE IF ptr = NoItem THEN m1
        ELSE aaa_variable_dec_ref(
                [m1 EXCEPT !.maps[map].buckets[ptr[1]] = RemoveAt(@, ptr[2]),
                           !.maps[map].size = @ - 1],
                ItemAt(m1, map, ptr).key)])

\* a drop that gives up when the key is not in the map
aaa_map_drop_or_abort(m, map, key) ==
    IF Running(m) /\ aaa_map_get_result(m, map, key) = NULL
    THEN Fatal(m, "abort")
    ELSE Bind([m1 \in {aaa_map_pop(m, map, key)} |->
         aaa_variable_dec_ref(m1, aaa_map_get_result(m, map, key))])

aaa_map_drop(m, map, key) ==
    Bind([m1 \in {aaa_map_pop(m, map, key)} |->
    aaa_variable_dec_ref(m1, aaa_map_get_result(m, map, key))])

aaa_map_set(m, map, key, new_value) ==
    Bind([m1 \in {aaa_map_get_item(m, map, key)} |->
    LET ptr == FoundItem(m1, map, key)
    IN  IF ~Running(m1) THEN m1
        ELSE IF ptr # NoItem
        THEN Bind([m2 \in {aaa_variable_dec_ref(m1, ItemAt(m1, map, ptr).value)} |->
             Bind([m3 \in {aaa_variable_copy(m2, new_value)} |->
             IF ~Running(m3) THEN m3
                 ELSE [m3 EXCEPT !.maps[map].buckets[ptr[1]][ptr[2]].value =
                                     NewVariable(m3)]])])
        ELSE LET hash == aaa_variable_hash(m1, key)
                 bucket_id == BucketOf(m1, map, hash)
             IN  Bind([m2 \in {aaa_variable_copy(m1, key)} |->
             Bind([m3 \in {aaa_variable_copy(m2, new_value)} |->
             LET item == [key |-> NewVariable(m2), value |-> NewVariable(m3),
                          hash |-> hash, freed |-> FALSE]
             IN  Bind([m4 \in {[m3 EXCEPT !.maps[map].buckets[bucket_id] = <<item>> \o @,
                                  !.maps[map].size = @ + 1]} |->
             IF ~Running(m3) THEN m3
                 ELSE IF LoadFactorAbove(m4.maps[map].size,
                                         m4.maps[map].bucket_count)
                 THEN aaa_map_rehash(m4, map, m4.maps[map].bucket_count * 2)
                 ELSE m4])])])])

\* the head of bucket b (0 based), NoItem for an empty bucket
BucketHead(m, map, b) ==
    IF m.maps[map].buckets[b + 1] = <<>> THEN NoItem ELSE <<b + 1, 1>>

\* item->next
ItemNext(m, map, ptr) ==
    IF ptr[2] < Len(m.maps[map].buckets[ptr[1]]) THEN <<ptr[1], ptr[2] + 1>>
    ELSE NoItem

aaa_map_iter_new(m, map) ==
    Bind([m1 \in {aaa_map_inc_ref(m, map)} |->
    IF ~Running(m1) THEN m1
        ELSE [m1 EXCEPT !.map_iters = Store(@,
                [ref_count |-> aaa_ref_count_init, frees |-> 0, map |-> map,
                 next_bucket |-> 1, next_item |-> BucketHead(m1, map, 0)]),
                        !.fresh.map_iter = Slot(m1.map_iters)]])

NewMapIter(m) == m.fresh.map_iter

FreedMapIter ==
    [ref_count |-> 0, frees |-> 1, map |-> NULL, next_bucket |-> 0,
     next_item |-> NoItem]

aaa_map_iter_inc_ref(m, iter) ==
    IF ~Running(m) THEN m
    ELSE Bind([m1 \in {Touch(m, m.map_iters[iter])} |->
         IF ~Running(m1) THEN m1
             ELSE [m1 EXCEPT !.map_iters[iter] = Retained(@)]])

aaa_map_iter_dec_ref(m, iter) ==
    IF ~Running(m) THEN m
    ELSE Bind([m1 \in {Touch(m, m.map_iters[iter])} |->
         Bind([m2 \in {[m1 EXCEPT !.map_iters[iter] = Released(@, FreedMapIter)]} |->
         IF ~Running(m1) THEN m1
             ELSE IF m2.map_iters[iter].ref_count = 0
             THEN aaa_map_dec_ref(m2, m1.map_iters[iter].map)
             ELSE m2])])

\* the while (true) loop of aaa_map_iter_next: the item it stops at (NoItem
\* when it returns false) and the value it leaves in next_bucket
RECURSIVE MapIterScan(_, _, _, _)
MapIterScan(m, map, next_bucket, next_item) ==
    LET item == IF next_item = NoItem THEN BucketHead(m, map, next_bucket)
                ELSE next_item
        nb == IF next_item = NoItem THEN next_bucket + 1 ELSE next_bucket
    IN  IF item # NoItem THEN [item |-> item, next_bucket |-> nb]
        ELSE IF nb >= m.maps[map].bucket_count
        THEN [item |-> NoItem, next_bucket |-> nb]
        ELSE MapIterScan(m, map, nb, NoItem)

\* the item aaa_map_iter_next yields, NoItem when it returns false
aaa_map_iter_next_item(m, iter) ==
    LET it == m.map_iters[iter]
    IN  IF it.next_bucket >= m.maps[it.map].bucket_count THEN NoItem
        ELSE MapIterScan(m, it.map, it.next_bucket, it.next_item).item

aaa_map_iter_next_result(m, iter) == aaa_map_iter_next_item(m, iter) # NoItem

\* the values the call leaves in *key and *value
aaa_map_iter_next_key(m, iter, key) ==
    LET found == aaa_map_iter_next_item(m, iter)
    IN  IF found # NoItem THEN ItemAt(m, m.map_iters[iter].map, found).key
        ELSE NULL

aaa_map_iter_next_value(m, iter, key, value) ==
    LET found == aaa_map_iter_next_item(m, iter)
    IN  IF found # NoItem THEN ItemAt(m, m.map_iters[iter].map, found).value
        ELSE IF key # NULL THEN NULL
        ELSE value

\* key and value are the old *key and *value
aaa_map_iter_next(m, iter, key, value) ==
    IF ~Running(m) THEN m
    ELSE LET it == m.map_iters[iter]
             found == aaa_map_iter_next_item(m, iter)
         IN  Bind([m1 \in {IF key # NULL
                   THEN aaa_variable_dec_ref(aaa_variable_dec_ref(m, key), value)
                   ELSE m} |->
         IF it.next_bucket >= m.maps[it.map].bucket_count THEN m1
             ELSE LET scan == MapIterScan(m, it.map, it.next_bucket, it.next_item)
                  IN  IF found = NoItem
                      THEN IF ~Running(m1) THEN m1
                           ELSE [m1 EXCEPT
                                   !.map_iters[iter].next_bucket = scan.next_bucket,
                                   !.map_iters[iter].next_item = NoItem]
                      ELSE Bind([m2 \in {aaa_variable_inc_ref(m1,
                                        ItemAt(m, it.map, found).key)} |->
                           Bind([m3 \in {aaa_variable_inc_ref(m2,
                                        ItemAt(m, it.map, found).value)} |->
                           IF ~Running(m3) THEN m3
                               ELSE [m3 EXCEPT
                                   !.map_iters[iter].next_bucket = scan.next_bucket,
                                   !.map_iters[iter].next_item =
                                       ItemNext(m, it.map, found)]])])])

\* the loop of aaa_map_copy
RECURSIVE MapCopyLoop(_, _, _, _, _)
MapCopyLoop(m, iter, map_copy, key, value) ==
    IF ~Running(m) THEN m
    ELSE LET found == aaa_map_iter_next_item(m, iter)
             next_key == ItemAt(m, m.map_iters[iter].map, found).key
             next_value == ItemAt(m, m.map_iters[iter].map, found).value
         IN  Bind([m1 \in {aaa_map_iter_next(m, iter, key, value)} |->
             IF found = NoItem THEN m1
             ELSE Bind([m2 \in {aaa_variable_copy(m1, next_key)} |->
                  Bind([m3 \in {aaa_variable_copy(m2, next_value)} |->
                  Bind([m4 \in {aaa_map_set(m3, map_copy, NewVariable(m2),
                                            NewVariable(m3))} |->
                  Bind([m5 \in {aaa_variable_dec_ref(m4, NewVariable(m2))} |->
                  Bind([m6 \in {aaa_variable_dec_ref(m5, NewVariable(m3))} |->
                  MapCopyLoop(m6, iter, map_copy, next_key, next_value)])])])])])])

\* the map aaa_map_copy returns is NewMap(aaa_map_new(m))
aaa_map_copy(m, map) ==
    Bind([m1 \in {aaa_map_new(m)} |->
    Bind([m2 \in {aaa_map_iter_new(m1, map)} |->
    Bind([m3 \in {MapCopyLoop(m2, NewMapIter(m2), NewMap(m1), NULL, NULL)} |->
    aaa_map_iter_dec_ref(m3, NewMapIter(m2))])])])

(***************************************************************************)
(* struct.c                                                                *)
(***************************************************************************)
aaa_struct_new(m, type_name) ==
    Bind([m1 \in {aaa_map_new(m)} |->
    Bind([m2 \in {aaa_string_new(m1, type_name, FALSE)} |->
    IF ~Running(m2) THEN m2
        ELSE [m2 EXCEPT !.structs = Store(@,
                [ref_count |-> aaa_ref_count_init, frees |-> 0,
                 type_name |-> NewString(m2), map |-> NewMap(m1)]),
                        !.fresh.struct = Slot(m2.structs)]])])

NewStruct(m) == m.fresh.struct

FreedStruct == [ref_count |-> 0, frees |-> 1, type_name |-> NULL, map |-> NULL]

aaa_struct_dec_ref(m, s) ==
    IF ~Running(m) THEN m
    ELSE Bind([m1 \in {Touch(m, m.structs[s])} |->
         Bind([m2 \in {[m1 EXCEPT !.structs[s] = Released(@, FreedStruct)]} |->
         IF ~Running(m1) THEN m1
             ELSE IF m2.structs[s].ref_count = 0
             THEN aaa_string_dec_ref(aaa_map_dec_ref(m2, m1.structs[s].map),
                                     m1.structs[s].type_name)
             ELSE m2])])

aaa_struct_inc_ref(m, s) ==
    IF ~Running(m) THEN m
    ELSE Bind([m1 \in {Touch(m, m.structs[s])} |->
         IF ~Running(m1) THEN m1
             ELSE [m1 EXCEPT !.structs[s] = Retained(@)]])

\* key = aaa_string_new(field_name, false); key_var = aaa_variable_new_str(key)
FieldKey(m, field_name) ==
    Bind([m1 \in {aaa_string_new(m, field_name, FALSE)} |->
    aaa_variable_new_str(m1, NewString(m1))])

aaa_struct_upsert_field(m, s, field_name, new_value, create) ==
    Bind([m1 \in {FieldKey(m, field_name)} |->
    IF ~Running(m1) THEN m1
        ELSE LET key_var == NewVariable(m1)
                 map == m1.structs[s].map
             IN  Bind([m2 \in {aaa_map_get_item(m1, map, key_var)} |->
                 IF ~Running(m2) THEN m2
                     ELSE IF aaa_map_has_key(m2, map, key_var) = create
                     THEN Fatal(m2, "abort")
                     ELSE Bind([m3 \in {aaa_map_set(m2, map, key_var, new_value)} |->
                          aaa_variable_dec_ref(m3, key_var)])])])

aaa_struct_create_field(m, s, field_name, new_value) ==
    aaa_struct_upsert_field(m, s, field_name, new_value, TRUE)

\* a set_field that stores the value whether the struct has the field or not
aaa_struct_set_field_or_create(m, s, field_name, new_value) ==
    Bind([m1 \in {FieldKey(m, field_name)} |->
    IF ~Running(m1) THEN m1
        ELSE Bind([m2 \in {aaa_map_set(m1, m1.structs[s].map, NewVariable(m1),
                                       new_value)} |->
             aaa_variable_dec_ref(m2, NewVariable(m1))])])

aaa_struct_set_field(m, s, field_name, new_value) ==
    aaa_struct_upsert_field(m, s, field_name, new_value, FALSE)

\* the variable aaa_struct_get_field returns, NULL when it aborts
aaa_struct_get_field_result(m, s, field_name) ==
    LET m1 == FieldKey(m, field_name)
    IN  aaa_map_get_result(m1, m1.structs[s].map, NewVariable(m1))

aaa_struct_get_field(m, s, field_name) ==
    Bind([m1 \in {FieldKey(m, field_name)} |->
    IF ~Running(m1) THEN m1
        ELSE Bind([m2 \in {aaa_map_get(m1, m1.structs[s].map, NewVariable(m1))} |->
             IF ~Running(m2) THEN m2
                 ELSE IF aaa_map_get_result(m1, m1.structs[s].map,
                                            NewVariable(m1)) = NULL
                 THEN Fatal(m2, "abort")
                 ELSE aaa_variable_dec_ref(m2, NewVariable(m1))])])

(***************************************************************************)
(* var.c: reference counts                                                 *)
(***************************************************************************)
\* the inc_ref or dec_ref of the payload, chosen by the kind
PayloadRef(m, var, string_op(_, _), vector_op(_, _), map_op(_, _),
           struct_op(_, _), vector_iter_op(_, _), map_iter_op(_, _)) ==
    LET v == m.variables[var]
    IN  CASE v.kind \in {AAA_BOOLEAN, AAA_INTEGER} -> m
          [] v.kind = AAA_STRING -> string_op(m, v.payload)
          [] v.kind = AAA_VECTOR -> vector_op(m, v.payload)
          [] v.kind \in {AAA_MAP, AAA_SET} -> map_op(m, v.payload)
          [] v.kind = AAA_STRUCT -> struct_op(m, v.payload)
          [] v.kind = AAA_VECTOR_ITER -> vector_iter_op(m, v.payload)
          [] v.kind \in {AAA_MAP_ITER, AAA_SET_ITER} -> map_iter_op(m, v.payload)
          [] OTHER -> m

aaa_variable_dec_ref(m, var) ==
    IF ~Running(m) \/ var = NULL THEN m
    ELSE Bind([m1 \in {Touch(m, m.variables[var])} |->
         Bind([m2 \in {PayloadRef(m1, var, aaa_string_dec_ref, aaa_vector_dec_ref,
                              aaa_map_dec_ref, aaa_struct_dec_ref,
                              aaa_vector_iter_dec_ref, aaa_map_iter_dec_ref)} |->
         IF ~Running(m2) THEN m2
             ELSE [m2 EXCEPT !.variables[var] = Released(@, FreedVariable)]])])

aaa_variable_inc_ref(m, var) ==
    IF ~Running(m) \/ var = NULL THEN m
    ELSE Bind([m1 \in {Touch(m, m.variables[var])} |->
         Bind([m2 \in {PayloadRef(m1, var, aaa_string_inc_ref, aaa_vector_inc_ref,
                              aaa_map_inc_ref, aaa_struct_inc_ref,
                              aaa_vector_iter_inc_ref, aaa_map_iter_inc_ref)} |->
         IF ~Running(m2) THEN m2
             ELSE [m2 EXCEPT !.variables[var] = Retained(@)]])])

\* aaa_variable_copy is declared and called in vector.c and map.c; its
\* definition is not part of the sources.  A copy is a new variable with a
\* fresh value: an integer or a boolean by value, a text through
\* aaa_string_copy, a container through its recursive copy.
aaa_variable_copy(m, var) ==
    IF ~Running(m) THEN m
    ELSE IF var = NULL THEN Fatal(Flag(m, "null_dereference"), "fault")
    ELSE LET v == m.variables[var]
         IN  CASE v.kind = AAA_INTEGER -> aaa_variable_new_int(m, v.payload)
               [] v.kind = AAA_BOOLEAN -> aaa_variable_new_bool(m, v.payload)
               [] v.kind = AAA_STRING ->
                    Bind([m1 \in {aaa_string_copy(m, v.payload)} |->
                    aaa_variable_new_str(m1, NewString(m1))])
               [] v.kind = AAA_VECTOR ->
                    Bind([m1 \in {aaa_vector_new(m)} |->
                    aaa_variable_new_vector(aaa_vector_copy(m, v.payload),
                                                NewVector(m1))])
               [] v.kind = AAA_MAP ->
                    Bind([m1 \in {aaa_map_new(m)} |->
                    aaa_variable_new_map(aaa_map_copy(m, v.payload),
                                             NewMap(m1))])
               [] v.kind = AAA_SET ->
                    Bind([m1 \in {aaa_map_new(m)} |->
                    aaa_variable_new_set(aaa_map_copy(m, v.payload),
                                             NewMap(m1))])
               [] OTHER -> Fatal(m, "abort")

(***************************************************************************)
(* buffer.c.  A text is the sequence of its bytes, without the final NUL.  *)
(* free(buff) frees the struct; the bytes stay with the string that        *)
(* aaa_buffer_to_string makes of them.                                     *)
(***************************************************************************)
BufferInitialSize == 1024

aaa_buffer_new(m) ==
    IF ~Running(m) THEN m
    ELSE [m EXCEPT !.buffers = Store(@,
            [ref_count |-> aaa_ref_count_init, frees |-> 0,
             max_size |-> BufferInitialSize, data |-> <<>>, size |-> 0]),
                   !.fresh.buffer = Slot(m.buffers)]

FreedBuffer ==
    [ref_count |-> 0, frees |-> 1, max_size |-> 0, data |-> <<>>, size |-> 0]

\* a read or write of a buffer that was freed
TouchBuffer(m, buff) ==
    IF Running(m) /\ Freed(m.buffers[buff])
    THEN Undefined(m, "buffer_use_after_free") ELSE m

\* max_size after the loop that doubles it while needed > max_size
RECURSIVE GrownSize(_, _)
GrownSize(max_size, needed) ==
    IF max_size > 0 /\ needed > max_size THEN GrownSize(2 * max_size, needed)
    ELSE max_size

aaa_buffer_append_sized_c_string(m, buff, str, length) ==
    Bind([m1 \in {TouchBuffer(m, buff)} |->
    IF ~Running(m1) THEN m1
        ELSE [m1 EXCEPT !.buffers[buff] =
                [@ EXCEPT !.max_size = GrownSize(@, m1.buffers[buff].size
                                                        + length + 1),
                          !.data = @ \o SubSeq(str, 1, length),
                          !.size = @ + length]]])

aaa_buffer_append_c_string(m, buff, str) ==
    aaa_buffer_append_sized_c_string(m, buff, str, Len(str))

aaa_buffer_append_string(m, buff, string) ==
    IF ~Running(m) THEN m
    ELSE aaa_buffer_append_sized_c_string(Touch(m, m.strings[string]), buff,
            m.strings[string].raw, m.strings[string].length)

aaa_buffer_dec_ref(m, buff) ==
    Bind([m1 \in {TouchBuffer(m, buff)} |->
    IF ~Running(m1) THEN m1
        ELSE [m1 EXCEPT !.buffers[buff] = Released(@, FreedBuffer)]])

\* the string aaa_buffer_to_string returns is NewString of its machine
aaa_buffer_to_string(m, buff) ==
    IF ~Running(m) THEN m
    ELSE LET data == m.buffers[buff].data
         IN  Bind([m1 \in {aaa_buffer_dec_ref(m, buff)} |->
             aaa_string_new(m1, data, TRUE)])

(***************************************************************************)
(* var.c, vector.c, map.c, str.c: repr and join.  The string a function    *)
(* returns is NewString of the machine it leaves.                          *)
(***************************************************************************)
RECURSIVE DigitsOf(_)
\* the decimal digits of n >= 0
DigitsOf(n) ==
    IF n < 10 THEN <<48 + n>> ELSE Append(DigitsOf(n \div 10), 48 + (n % 10))

RECURSIVE DigitsOfNegative(_)
\* the decimal digits of -n for n < 0
DigitsOfNegative(n) ==
    LET digit == (10 - (n % 10)) % 10
    IN  IF n > -10 THEN <<48 + digit>>
        ELSE Append(DigitsOfNegative((n + digit) \div 10), 48 + digit)

\* snprintf("%d", integer)
Decimal(integer) ==
    IF integer >= 0 THEN DigitsOf(integer)
    ELSE <<45>> \o DigitsOfNegative(integer)

aaa_variable_repr_bool(m, boolean) ==
    aaa_string_new(m, IF boolean THEN <<116, 114, 117, 101>>
                      ELSE <<102, 97, 108, 115, 101>>, FALSE)

aaa_variable_repr_int(m, integer) == aaa_string_new(m, Decimal(integer), TRUE)

\* what aaa_variable_repr_str appends for the byte c
Escaped(c) ==
    CASE c = 7 -> <<92, 97>>
      [] c = 8 -> <<92, 98>>
      [] c = 12 -> <<92, 102>>
      [] c = 10 -> <<92, 110>>
      [] c = 13 -> <<92, 114>>
      [] c = 9 -> <<92, 116>>
      [] c = 11 -> <<92, 118>>
      [] c = 92 -> <<92, 92>>
      [] c = 39 -> <<92, 39>>
      [] c = 34 -> <<92, 34>>
      [] OTHER -> <<c>>

\* the loop of aaa_variable_repr_str over the bytes from c on
RECURSIVE ReprStrLoop(_, _, _, _)
ReprStrLoop(m, buff, raw, c) ==
    IF ~Running(m) \/ c > Len(raw) THEN m
    ELSE ReprStrLoop(aaa_buffer_append_c_string(m, buff, Escaped(raw[c])),
                     buff, raw, c + 1)

\* aaa_buffer_append, which var.c calls, is aaa_buffer_append_c_string
aaa_variable_repr_str(m, string) ==
    IF ~Running(m) THEN m
    ELSE Bind([m1 \in {aaa_buffer_new(m)} |->
         Bind([m2 \in {aaa_buffer_append_c_string(m1, NewBuffer(m1), <<34>>)} |->
         Bind([m3 \in {ReprStrLoop(m2, NewBuffer(m1), m.strings[string].raw, 1)} |->
         Bind([m4 \in {aaa_buffer_append_c_string(m3, NewBuffer(m1), <<34>>)} |->
         Bind([m5 \in {aaa_buffer_to_string(m4, NewBuffer(m1))} |->
         aaa_buffer_dec_ref(m5, NewBuffer(m1))])])])])])

RECURSIVE aaa_variable_repr(_, _)

\* the loop of aaa_vector_repr
RECURSIVE VectorReprLoop(_, _, _, _, _)
VectorReprLoop(m, iter, buff, item, is_first) ==
    IF ~Running(m) THEN m
    ELSE LET more == aaa_vector_iter_next_result(m, iter)
             next == aaa_vector_iter_next_item(m, iter)
         IN  Bind([m1 \in {aaa_vector_iter_next(m, iter, item)} |->
             IF ~more THEN m1
             ELSE Bind([m2 \in {IF is_first THEN m1
                                ELSE aaa_buffer_append_c_string(m1, buff,
                                                                <<44, 32>>)} |->
                  Bind([m3 \in {aaa_variable_repr(m2, next)} |->
                  Bind([m4 \in {aaa_buffer_append_string(m3, buff, NewString(m3))} |->
                  Bind([m5 \in {aaa_string_dec_ref(m4, NewString(m3))} |->
                  VectorReprLoop(m5, iter, buff, next, FALSE)])])])])])

aaa_vector_repr(m, vec) ==
    Bind([m1 \in {aaa_buffer_new(m)} |->
    Bind([m2 \in {aaa_buffer_append_c_string(m1, NewBuffer(m1), <<91>>)} |->
    Bind([m3 \in {aaa_vector_iter_new(m2, vec)} |->
    Bind([m4 \in {VectorReprLoop(m3, NewVectorIter(m3), NewBuffer(m1), NULL,
                                 TRUE)} |->
    Bind([m5 \in {aaa_buffer_append_c_string(m4, NewBuffer(m1), <<93>>)} |->
    Bind([m6 \in {aaa_buffer_to_string(m5, NewBuffer(m1))} |->
    Bind([m7 \in {aaa_buffer_dec_ref(m6, NewBuffer(m1))} |->
    aaa_vector_iter_dec_ref(m7, NewVectorIter(m3))])])])])])])])

\* the loop of aaa_map_repr (with_values) and of aaa_set_repr
RECURSIVE MapReprLoop(_, _, _, _, _, _, _)
MapReprLoop(m, iter, buff, key, value, is_first, with_values) ==
    IF ~Running(m) THEN m
    ELSE LET found == aaa_map_iter_next_item(m, iter)
             next_key == ItemAt(m, m.map_iters[iter].map, found).key
             next_value == ItemAt(m, m.map_iters[iter].map, found).value
         IN  Bind([m1 \in {aaa_map_iter_next(m, iter, key, value)} |->
             IF found = NoItem THEN m1
             ELSE Bind([m2 \in {IF is_first THEN m1
                                ELSE aaa_buffer_append_c_string(m1, buff,
                                                                <<44, 32>>)} |->
                  Bind([m3 \in {aaa_variable_repr(m2, next_key)} |->
                  Bind([m4 \in {IF with_values
                                THEN aaa_variable_repr(m3, next_value)
                                ELSE m3} |->
                  Bind([m5 \in {aaa_buffer_append_string(m4, buff, NewString(m3))} |->
                  Bind([m6 \in {IF with_values
                                THEN aaa_buffer_append_string(
                                        aaa_buffer_append_c_string(m5, buff,
                                                                   <<58, 32>>),
                                        buff, NewString(m4))
                                ELSE m5} |->
                  Bind([m7 \in {aaa_string_dec_ref(m6, NewString(m3))} |->
                  Bind([m8 \in {IF with_values
                                THEN aaa_string_dec_ref(m7, NewString(m4))
                                ELSE m7} |->
                  MapReprLoop(m8, iter, buff, next_key, next_value, FALSE,
                              with_values)])])])])])])])])

MapLikeRepr(m, map, with_values) ==
    Bind([m1 \in {aaa_buffer_new(m)} |->
    Bind([m2 \in {aaa_buffer_append_c_string(m1, NewBuffer(m1), <<123>>)} |->
    Bind([m3 \in {aaa_map_iter_new(m2, map)} |->
    Bind([m4 \in {MapReprLoop(m3, NewMapIter(m3), NewBuffer(m1), NULL, NULL,
                              TRUE, with_values)} |->
    Bind([m5 \in {aaa_buffer_append_c_string(m4, NewBuffer(m1), <<125>>)} |->
    Bind([m6 \in {aaa_buffer_to_string(m5, NewBuffer(m1))} |->
    aaa_map_iter_dec_ref(m6, NewMapIter(m3))])])])])])])

aaa_map_repr(m, map) == MapLikeRepr(m, map, TRUE)

aaa_set_repr(m, map) == MapLikeRepr(m, map, FALSE)

aaa_variable_repr(m, var) ==
    IF ~Running(m) THEN m
    ELSE IF var = NULL THEN Fatal(Flag(m, "null_dereference"), "fault")
    ELSE LET v == m.variables[var]
         IN  CASE v.kind = AAA_BOOLEAN -> aaa_variable_repr_bool(m, v.payload)
               [] v.kind = AAA_INTEGER -> aaa_variable_repr_int(m, v.payload)
               [] v.kind = AAA_STRING -> aaa_variable_repr_str(m, v.payload)
               [] v.kind = AAA_VECTOR -> aaa_vector_repr(m, v.payload)
               [] v.kind = AAA_MAP -> aaa_map_repr(m, v.payload)
               [] v.kind = AAA_SET -> aaa_set_repr(m, v.payload)
               [] OTHER -> Fatal(m, "abort")

\* the loop of aaa_string_join over the parts from i on
RECURSIVE JoinLoop(_, _, _, _, _)
JoinLoop(m, string, parts, buff, i) ==
    IF ~Running(m) \/ i >= aaa_vector_size(m, parts) THEN m
    ELSE LET var == VectorSlot(m, parts, i)
         IN  Bind([m1 \in {aaa_vector_get(m, parts, i)} |->
             Bind([m2 \in {aaa_variable_check_kind(m1, var, AAA_STRING)} |->
             Bind([m3 \in {IF i = 0 THEN m2
                           ELSE aaa_buffer_append_string(m2, buff, string)} |->
             Bind([m4 \in {IF Running(m3)
                           THEN aaa_buffer_append_string(m3, buff,
                                    m3.variables[var].payload)
                           ELSE m3} |->
             Bind([m5 \in {aaa_variable_dec_ref(m4, var)} |->
             JoinLoop(m5, string, parts, buff, i + 1)])])])])])

aaa_string_join(m, string, parts) ==
    Bind([m1 \in {aaa_buffer_new(m)} |->
    Bind([m2 \in {JoinLoop(m1, string, parts, NewBuffer(m1), 0)} |->
    Bind([m3 \in {aaa_buffer_to_string(m2, NewBuffer(m1))} |->
    aaa_buffer_dec_ref(m3, NewBuffer(m1))])])])

(***************************************************************************)
(* stack.c: the raw stack.  stack is data[0..size-1], the top last.        *)
(***************************************************************************)
aaa_stack_prevent_underflow(m, pop_count) ==
    IF Running(m) /\ Len(m.stack) < pop_count THEN Fatal(m, "underflow") ELSE m

aaa_stack_prevent_overflow(m, push_count) ==
    IF Running(m) /\ Len(m.stack) + push_count >= StackMaxSize
    THEN Fatal(m, "overflow") ELSE m

\* data[size - 1]; on an empty stack the index is SIZE_MAX, one slot below
\* the array, and the pointer read there is garbage (NULL when the build
\* carries on)
aaa_stack_top(m) == IF m.stack = <<>> THEN NULL ELSE m.stack[Len(m.stack)]

\* the machine after the read of data[size - 1]
aaa_stack_top_call(m) ==
    IF Running(m) /\ m.stack = <<>> THEN Undefined(m, "read_below_stack") ELSE m

aaa_stack_push(m, variable) ==
    Bind([m1 \in {aaa_stack_prevent_overflow(m, 1)} |->
    IF ~Running(m1) THEN m1
        ELSE [m1 EXCEPT !.stack = Append(@, variable)]])

\* the variable aaa_stack_pop returns is aaa_stack_top(m)
aaa_stack_pop(m) ==
    Bind([m1 \in {aaa_stack_prevent_underflow(m, 1)} |->
    IF ~Running(m1) THEN m1
        ELSE [m1 EXCEPT !.stack = SubSeq(@, 1, Len(@) - 1)]])

aaa_stack_push_int(m, value) ==
    Bind([m1 \in {aaa_variable_new_int(m, value)} |->
    aaa_stack_push(m1, NewVariable(m1))])

aaa_stack_push_bool(m, value) ==
    Bind([m1 \in {aaa_variable_new_bool(m, value)} |->
    aaa_stack_push(m1, NewVariable(m1))])

aaa_stack_push_str(m, string) ==
    Bind([m1 \in {aaa_variable_new_str(m, string)} |->
    aaa_stack_push(m1, NewVariable(m1))])

aaa_stack_push_str_raw(m, raw, freeable) ==
    Bind([m1 \in {aaa_string_new(m, raw, freeable)} |->
    aaa_stack_push_str(m1, NewString(m1))])

aaa_stack_push_vec(m, vector) ==
    Bind([m1 \in {aaa_variable_new_vector(m, vector)} |->
    aaa_stack_push(m1, NewVariable(m1))])

aaa_stack_push_vec_empty(m) ==
    Bind([m1 \in {aaa_vector_new(m)} |->
    aaa_stack_push_vec(m1, NewVector(m1))])

aaa_stack_push_map(m, map) ==
    Bind([m1 \in {aaa_variable_new_map(m, map)} |->
    aaa_stack_push(m1, NewVariable(m1))])

aaa_stack_push_map_empty(m) ==
    Bind([m1 \in {aaa_map_new(m)} |->
    aaa_stack_push_map(m1, NewMap(m1))])

aaa_stack_push_struct(m, s) ==
    Bind([m1 \in {aaa_variable_new_struct(m, s)} |->
    aaa_stack_push(m1, NewVariable(m1))])

\* the payload a typed pop returns: that of the top variable
PoppedPayload(m) ==
    IF aaa_stack_top(m) = NULL THEN NULL
    ELSE m.variables[aaa_stack_top(m)].payload

\* pop_int and pop_bool: pop, check the kind, release the variable
PopValue(m, kind) ==
    LET top == aaa_stack_top(m)
    IN  Bind([m1 \in {aaa_stack_pop(m)} |->
    Bind([m2 \in {aaa_variable_check_kind(m1, top, kind)} |->
    aaa_variable_dec_ref(m2, top)])])

\* the other typed pops: the caller receives a reference to the payload
PopReference(m, kind, inc_ref(_, _)) ==
    LET top == aaa_stack_top(m)
    IN  Bind([m1 \in {aaa_stack_pop(m)} |->
    Bind([m2 \in {aaa_variable_check_kind(m1, top, kind)} |->
    Bind([m3 \in {IF Running(m2) THEN inc_ref(m2, PoppedPayload(m)) ELSE m2} |->
    aaa_variable_dec_ref(m3, top)])])])

aaa_stack_pop_bool(m) == PopValue(m, AAA_BOOLEAN)
aaa_stack_pop_int(m) == PopValue(m, AAA_INTEGER)
aaa_stack_pop_str(m) == PopReference(m, AAA_STRING, aaa_string_inc_ref)
aaa_stack_pop_vec(m) == PopReference(m, AAA_VECTOR, aaa_vector_inc_ref)
aaa_stack_pop_map(m) == PopReference(m, AAA_MAP, aaa_map_inc_ref)
aaa_stack_pop_struct(m) == PopReference(m, AAA_STRUCT, aaa_struct_inc_ref)

(***************************************************************************)
(* stack.c: the manipulation opcodes                                       *)
(***************************************************************************)
\* aaa_stack_dup without its aaa_variable_inc_ref
DupWithoutIncRef(m) ==
    LET top == aaa_stack_top(m)
    IN  Bind([m1 \in {aaa_stack_top_call(m)} |->
    aaa_stack_push(m1, top)])

aaa_stack_dup(m) ==
    LET top == aaa_stack_top(m)
    IN  Bind([m1 \in {aaa_stack_top_call(m)} |->
    Bind([m2 \in {aaa_stack_push(m1, top)} |->
    aaa_variable_inc_ref(m2, top)])])

aaa_stack_swap(m) ==
    Bind([m1 \in {aaa_stack_prevent_underflow(m, 2)} |->
    LET a == aaa_stack_top(m1)
    IN  Bind([m2 \in {aaa_stack_pop(m1)} |->
    LET b == aaa_stack_top(m2)
    IN  Bind([m3 \in {aaa_stack_pop(m2)} |->
    aaa_stack_push(aaa_stack_push(m3, a), b)])])])

aaa_stack_over(m) ==
    Bind([m1 \in {aaa_stack_prevent_underflow(m, 2)} |->
    LET copied == m1.stack[Len(m1.stack) - 1]
    IN  IF ~Running(m1) THEN m1
        ELSE aaa_variable_inc_ref(aaa_stack_push(m1, copied), copied)])

\* aaa_stack_rot that pushes a, b and c back as c, a, b
RotBackwards(m) ==
    LET c == aaa_stack_top(m)
    IN  Bind([m1 \in {aaa_stack_pop(m)} |->
    LET b == aaa_stack_top(m1)
    IN  Bind([m2 \in {aaa_stack_pop(m1)} |->
    LET a == aaa_stack_top(m2)
    IN  Bind([m3 \in {aaa_stack_pop(m2)} |->
    aaa_stack_push(aaa_stack_push(aaa_stack_push(m3, c), a), b)])])])

aaa_stack_rot(m) ==
    LET c == aaa_stack_top(m)
    IN  Bind([m1 \in {aaa_stack_pop(m)} |->
    LET b == aaa_stack_top(m1)
    IN  Bind([m2 \in {aaa_stack_pop(m1)} |->
    LET a == aaa_stack_top(m2)
    IN  Bind([m3 \in {aaa_stack_pop(m2)} |->
    aaa_stack_push(aaa_stack_push(aaa_stack_push(m3, b), c), a)])])])

aaa_stack_drop(m) ==
    LET popped == aaa_stack_top(m)
    IN  aaa_variable_dec_ref(aaa_stack_pop(m), popped)

(***************************************************************************)
(* stack.c: the vector and map opcodes                                     *)
(***************************************************************************)
aaa_stack_vec_push(m) ==
    LET pushed == aaa_stack_top(m)
    IN  Bind([m1 \in {aaa_stack_pop(m)} |->
    LET vec == PoppedPayload(m1)
    IN  Bind([m2 \in {aaa_stack_pop_vec(m1)} |->
    Bind([m3 \in {aaa_vector_push(m2, vec, pushed)} |->
    Bind([m4 \in {aaa_vector_dec_ref(m3, vec)} |->
    aaa_variable_dec_ref(m4, pushed)])])])])

aaa_stack_vec_pop(m) ==
    LET vec == PoppedPayload(m)
    IN  Bind([m1 \in {aaa_stack_pop_vec(m)} |->
    Bind([m2 \in {aaa_vector_pop(m1, vec)} |->
    Bind([m3 \in {IF Running(m2)
              THEN aaa_stack_push(m2, VectorSlot(m1, vec, m1.vectors[vec].size - 1))
              ELSE m2} |->
    aaa_vector_dec_ref(m3, vec)])])])

aaa_stack_vec_get(m) ==
    LET offset == PoppedPayload(m)
    IN  Bind([m1 \in {aaa_stack_pop_int(m)} |->
    LET vec == PoppedPayload(m1)
    IN  Bind([m2 \in {aaa_stack_pop_vec(m1)} |->
    Bind([m3 \in {aaa_vector_get(m2, vec, offset)} |->
    LET gotten == VectorSlot(m2, vec, offset)
    IN  IF ~Running(m3) THEN m3
        ELSE aaa_vector_dec_ref(
                aaa_variable_inc_ref(aaa_stack_push(m3, gotten), gotten), vec)])])])

aaa_stack_vec_set(m) ==
    LET value == aaa_stack_top(m)
    IN  Bind([m1 \in {aaa_stack_pop(m)} |->
    LET offset == PoppedPayload(m1)
    IN  Bind([m2 \in {aaa_stack_pop_int(m1)} |->
    LET vec == PoppedPayload(m2)
    IN  Bind([m3 \in {aaa_stack_pop_vec(m2)} |->
    Bind([m4 \in {aaa_vector_set(m3, vec, offset, value)} |->
    IF ~Running(m4) THEN m4
        ELSE aaa_vector_dec_ref(
                aaa_stack_push_bool(m4, aaa_vector_set_result(m3, vec, offset)),
                vec)])])])])

aaa_stack_map_set(m) ==
    LET value == aaa_stack_top(m)
    IN  Bind([m1 \in {aaa_stack_pop(m)} |->
    LET key == aaa_stack_top(m1)
    IN  Bind([m2 \in {aaa_stack_pop(m1)} |->
    LET map == PoppedPayload(m2)
    IN  Bind([m3 \in {aaa_stack_pop_map(m2)} |->
    Bind([m4 \in {aaa_map_set(m3, map, key, value)} |->
    Bind([m5 \in {aaa_map_dec_ref(m4, map)} |->
    aaa_variable_dec_ref(aaa_variable_dec_ref(m5, key), value)])])])])])

\* a map_get that answers a missing key with the Boolean false
aaa_stack_map_get_or_false(m) ==
    LET key == aaa_stack_top(m)
    IN  Bind([m1 \in {aaa_stack_pop(m)} |->
    LET map == PoppedPayload(m1)
    IN  Bind([m2 \in {aaa_stack_pop_map(m1)} |->
    Bind([m3 \in {aaa_map_get(m2, map, key)} |->
    IF ~Running(m3) THEN m3
        ELSE IF aaa_map_get_result(m3, map, key) = NULL
        THEN aaa_variable_dec_ref(
                aaa_map_dec_ref(aaa_stack_push_bool(m3, FALSE), map), key)
        ELSE aaa_variable_dec_ref(
                aaa_map_dec_ref(
                    aaa_stack_push(m3, aaa_map_get_result(m3, map, key)), map),
                key)])])])

aaa_stack_map_get(m) ==
    LET key == aaa_stack_top(m)
    IN  Bind([m1 \in {aaa_stack_pop(m)} |->
    LET map == PoppedPayload(m1)
    IN  Bind([m2 \in {aaa_stack_pop_map(m1)} |->
    Bind([m3 \in {aaa_map_get(m2, map, key)} |->
    IF ~Running(m3) THEN m3
        ELSE IF aaa_map_get_result(m3, map, key) = NULL THEN Fatal(m3, "abort")
        ELSE aaa_variable_dec_ref(
                aaa_map_dec_ref(
                    aaa_stack_push(m3, aaa_map_get_result(m3, map, key)), map),
                key)])])])

aaa_stack_map_pop(m) ==
    LET key == aaa_stack_top(m)
    IN  Bind([m1 \in {aaa_stack_pop(m)} |->
    LET map == PoppedPayload(m1)
    IN  Bind([m2 \in {aaa_stack_pop_map(m1)} |->
    Bind([m3 \in {aaa_map_pop(m2, map, key)} |->
    IF ~Running(m3) THEN m3
        ELSE IF aaa_map_get_result(m2, map, key) = NULL THEN Fatal(m3, "abort")
        ELSE aaa_map_dec_ref(
                aaa_variable_dec_ref(
                    aaa_stack_push(m3, aaa_map_get_result(m2, map, key)), key),
                map)])])])

aaa_stack_map_drop(m) ==
    LET key == aaa_stack_top(m)
    IN  Bind([m1 \in {aaa_stack_pop(m)} |->
    LET map == PoppedPayload(m1)
    IN  Bind([m2 \in {aaa_stack_pop_map(m1)} |->
    Bind([m3 \in {aaa_map_drop(m2, map, key)} |->
    aaa_map_dec_ref(aaa_variable_dec_ref(m3, key), map)])])])

aaa_stack_map_clear(m) ==
    LET map == PoppedPayload(m)
    IN  Bind([m1 \in {aaa_stack_pop_map(m)} |->
    Bind([m2 \in {aaa_map_clear(m1, map)} |->
    aaa_map_dec_ref(m2, map)])])

\* a map_has_key that answers false for a key it cannot hash
aaa_stack_map_has_key_unhashed(m) ==
    LET key == aaa_stack_top(m)
    IN  Bind([m1 \in {aaa_stack_pop(m)} |->
    LET map == PoppedPayload(m1)
    IN  Bind([m2 \in {aaa_stack_pop_map(m1)} |->
    IF ~Running(m2) THEN m2
        ELSE IF ~Hashable(m2, key)
        THEN aaa_variable_dec_ref(
                aaa_map_dec_ref(aaa_stack_push_bool(m2, FALSE), map), key)
        ELSE aaa_variable_dec_ref(
                aaa_map_dec_ref(
                    aaa_stack_push_bool(m2, aaa_map_has_key(m2, map, key)), map),
                key)])])

aaa_stack_map_has_key(m) ==
    LET key == aaa_stack_top(m)
    IN  Bind([m1 \in {aaa_stack_pop(m)} |->
    LET map == PoppedPayload(m1)
    IN  Bind([m2 \in {aaa_stack_pop_map(m1)} |->
    Bind([m3 \in {aaa_map_get_item(m2, map, key)} |->
    IF ~Running(m3) THEN m3
        ELSE aaa_variable_dec_ref(
                aaa_map_dec_ref(
                    aaa_stack_push_bool(m3, aaa_map_has_key(m3, map, key)), map),
                key)])])])

\* (int)size is the size: a map of 2^31 entries does not fit the memory
aaa_stack_map_size(m) ==
    LET map == PoppedPayload(m)
    IN  Bind([m1 \in {aaa_stack_pop_map(m)} |->
    IF ~Running(m1) THEN m1
        ELSE aaa_map_dec_ref(
                aaa_stack_push_int(m1, aaa_map_size(m1, map)),
                map)])

aaa_stack_map_copy(m) ==
    LET map == PoppedPayload(m)
    IN  Bind([m1 \in {aaa_stack_pop_map(m)} |->
    IF ~Running(m1) THEN m1
        ELSE Bind([m2 \in {aaa_map_copy(m1, map)} |->
             Bind([m3 \in {aaa_stack_push_map(m2, NewMap(aaa_map_new(m1)))} |->
             aaa_map_dec_ref(m3, map)])])])

\* (int)size is the size: a vector of 2^31 elements does not fit the memory
aaa_stack_vec_size(m) ==
    LET vec == PoppedPayload(m)
    IN  Bind([m1 \in {aaa_stack_pop_vec(m)} |->
    IF ~Running(m1) THEN m1
        ELSE aaa_vector_dec_ref(
                aaa_stack_push_int(m1, aaa_vector_size(m1, vec)),
                vec)])

aaa_stack_vec_empty(m) ==
    LET vec == PoppedPayload(m)
    IN  Bind([m1 \in {aaa_stack_pop_vec(m)} |->
    IF ~Running(m1) THEN m1
        ELSE aaa_vector_dec_ref(
                aaa_stack_push_bool(m1, aaa_vector_empty(m1, vec)),
                vec)])

aaa_stack_vec_clear(m) ==
    LET vec == PoppedPayload(m)
    IN  Bind([m1 \in {aaa_stack_pop_vec(m)} |->
    Bind([m2 \in {aaa_vector_clear(m1, vec)} |->
    aaa_vector_dec_ref(m2, vec)])])

aaa_stack_vec_copy(m) ==
    LET vec == PoppedPayload(m)
    IN  Bind([m1 \in {aaa_stack_pop_vec(m)} |->
    IF ~Running(m1) THEN m1
        ELSE Bind([m2 \in {aaa_vector_copy(m1, vec)} |->
             Bind([m3 \in {aaa_stack_push_vec(m2, NewVector(aaa_vector_new(m1)))} |->
             aaa_vector_dec_ref(m3, vec)])])])

(***************************************************************************)
(* stack.c: the fields of a struct                                         *)
(***************************************************************************)
aaa_stack_field_query(m) ==
    LET field_name == PoppedPayload(m)
    IN  Bind([m1 \in {aaa_stack_pop_str(m)} |->
    LET s == PoppedPayload(m1)
    IN  Bind([m2 \in {aaa_stack_pop_struct(m1)} |->
    IF ~Running(m2) THEN m2
        ELSE LET field_name_raw == m2.strings[field_name].raw
             IN  Bind([m3 \in {aaa_struct_get_field(m2, s, field_name_raw)} |->
                 Bind([m4 \in {aaa_stack_push(m3,
                         aaa_struct_get_field_result(m2, s, field_name_raw))} |->
                 Bind([m5 \in {aaa_string_dec_ref(m4, field_name)} |->
                 aaa_struct_dec_ref(m5, s)])])])])])

aaa_stack_field_update(m) ==
    LET new_value == aaa_stack_top(m)
    IN  Bind([m1 \in {aaa_stack_pop(m)} |->
    LET field_name == PoppedPayload(m1)
    IN  Bind([m2 \in {aaa_stack_pop_str(m1)} |->
    LET s == PoppedPayload(m2)
    IN  Bind([m3 \in {aaa_stack_pop_struct(m2)} |->
    IF ~Running(m3) THEN m3
        ELSE Bind([m4 \in {aaa_struct_set_field(m3, s,
                              m3.strings[field_name].raw, new_value)} |->
             Bind([m5 \in {aaa_variable_dec_ref(m4, new_value)} |->
             Bind([m6 \in {aaa_string_dec_ref(m5, field_name)} |->
             aaa_struct_dec_ref(m6, s)])])])])])])

(***************************************************************************)
(* stack.c: repr and str_join                                              *)
(***************************************************************************)
aaa_stack_repr(m) ==
    LET top == aaa_stack_top(m)
    IN  Bind([m1 \in {aaa_stack_pop(m)} |->
    Bind([m2 \in {aaa_variable_repr(m1, top)} |->
    Bind([m3 \in {aaa_stack_push_str(m2, NewString(m2))} |->
    aaa_variable_dec_ref(m3, top)])])])

aaa_stack_str_join(m) ==
    LET parts == PoppedPayload(m)
    IN  Bind([m1 \in {aaa_stack_pop_vec(m)} |->
    LET string == PoppedPayload(m1)
    IN  Bind([m2 \in {aaa_stack_pop_str(m1)} |->
    Bind([m3 \in {aaa_string_join(m2, string, parts)} |->
    Bind([m4 \in {aaa_stack_push_str(m3, NewString(m3))} |->
    aaa_string_dec_ref(aaa_vector_dec_ref(m4, parts), string)])])])])

(***************************************************************************)
(* The arithmetic of int (32 bit, two's complement).  A result outside of  *)
(* the range of int, INT_MIN / -1 and INT_MIN % -1 are undefined: the      *)
(* build faults (a trap) or carries on with the wrapped value.             *)
(***************************************************************************)
IntOfLow32(w) ==
    w[1] + (256 * w[2]) + (65536 * w[3])
        + (16777216 * (IF w[4] >= 128 THEN w[4] - 256 ELSE w[4]))

ShiftBytes(w, n) == [k \in 1..8 |-> IF k <= n THEN 0 ELSE w[k - n]]

RECURSIVE WordProductFrom(_, _, _)
WordProductFrom(a, b, k) ==
    IF k > 8 THEN WordZero
    ELSE WordAdd(ShiftBytes(WordMul(a, b[k]), k - 1),
                 WordProductFrom(a, b, k + 1))

\* a * b modulo 2^64
WordProduct(a, b) == WordProductFrom(a, b, 1)

WordNot(a) == [k \in 1..8 |-> 255 - a[k]]

WordSum(lhs, rhs) == WordAdd(WordOfInt(lhs), WordOfInt(rhs))
WordDifference(lhs, rhs) ==
    WordAdd(WordAdd(WordOfInt(lhs), WordNot(WordOfInt(rhs))), WordOfInt(1))

\* whether the exact result, a 64 bit word, is an int
FitsInt(w) == WordOfLow32(w) = w

\* a / n and a % n of C for n > 0: the quotient is truncated toward zero
TruncDiv(a, n) ==
    IF a >= 0 THEN a \div n
    ELSE (a \div n) + (IF a % n = 0 THEN 0 ELSE 1)

DivIsDefined(lhs, rhs) == rhs # 0 /\ ~(lhs = INT_MIN /\ rhs = -1)

\* lhs / rhs where it is defined; INT_MIN where the build carries on
IntQuotient(lhs, rhs) ==
    IF rhs > 0 THEN TruncDiv(lhs, rhs)
    ELSE IF rhs = INT_MIN THEN (IF lhs = INT_MIN THEN 1 ELSE 0)
    ELSE IF lhs = INT_MIN /\ rhs = -1 THEN INT_MIN
    ELSE -TruncDiv(lhs, -rhs)

\* lhs % rhs where it is defined; 0 where the build carries on
IntRemainder(lhs, rhs) ==
    IF lhs = INT_MIN /\ rhs = -1 THEN 0
    ELSE lhs - (rhs * IntQuotient(lhs, rhs))

\* the machine after an int operation whose exact result is the word w
IntResult(m, w) ==
    IF FitsInt(w) THEN m ELSE Undefined(m, "signed_overflow")

(***************************************************************************)
(* stack.c: the arithmetic opcodes                                         *)
(***************************************************************************)
\* rhs is popped first, lhs second; the result is the int of word(lhs, rhs)
BinaryInt(m, word(_, _)) ==
    LET rhs == PoppedPayload(m)
    IN  Bind([m1 \in {aaa_stack_pop_int(m)} |->
    LET lhs == PoppedPayload(m1)
    IN  Bind([m2 \in {aaa_stack_pop_int(m1)} |->
    IF ~Running(m2) THEN m2
        ELSE aaa_stack_push_int(IntResult(m2, word(lhs, rhs)),
                                IntOfLow32(word(lhs, rhs)))])])

aaa_stack_plus(m) == BinaryInt(m, WordSum)

\* minus with its operands exchanged: rhs - lhs
MinusSwapped(m) ==
    BinaryInt(m, LAMBDA lhs, rhs : WordDifference(rhs, lhs))

aaa_stack_minus(m) == BinaryInt(m, WordDifference)

aaa_stack_multiply(m) ==
    BinaryInt(m, LAMBDA lhs, rhs : WordProduct(WordOfInt(lhs), WordOfInt(rhs)))

\* divide and modulo: value(lhs, rhs) is lhs / rhs or lhs % rhs
DivideLike(m, value(_, _)) ==
    LET rhs == PoppedPayload(m)
    IN  Bind([m1 \in {aaa_stack_pop_int(m)} |->
    LET lhs == PoppedPayload(m1)
    IN  Bind([m2 \in {aaa_stack_pop_int(m1)} |->
    IF ~Running(m2) THEN m2
        ELSE IF rhs = 0
        THEN aaa_stack_push_bool(aaa_stack_push_int(m2, 0), FALSE)
        ELSE Bind([m3 \in {IF DivIsDefined(lhs, rhs) THEN m2
                       ELSE Undefined(m2, "division_overflow")} |->
             aaa_stack_push_bool(aaa_stack_push_int(m3, value(lhs, rhs)),
                                     TRUE)])])])

aaa_stack_divide(m) == DivideLike(m, IntQuotient)

\* modulo without the test of the divisor: lhs % 0 is a trap
ModuloTrapsOnZero(m) ==
    IF Running(m) /\ Len(m.stack) >= 2 /\ PoppedPayload(m) = 0
    THEN Fatal(m, "fault")
    ELSE DivideLike(m, IntRemainder)

aaa_stack_modulo(m) == DivideLike(m, IntRemainder)

(***************************************************************************)
(* str.c: substr and split.  start and end are size_t; the bytes of a text *)
(* are at the offsets 0..length-1 and the NUL at the offset length.        *)
(***************************************************************************)
RECURSIVE WordLessFrom(_, _, _)
WordLessFrom(a, b, k) ==
    IF k = 0 THEN FALSE
    ELSE IF a[k] # b[k] THEN a[k] < b[k]
    ELSE WordLessFrom(a, b, k - 1)

\* a < b of two size_t
WordLess(a, b) == WordLessFrom(a, b, 8)

\* the value *success_out receives
aaa_string_substr_success(m, string, start, end) ==
    ~(WordLess(end, start) \/ WordLess(WordOfInt(m.strings[string].length), end))

\* strncpy(raw, string->raw + start, end - start) reads the bytes at the
\* offsets start..end-1: the machine after the read and the bytes read,
\* which are of no known value when an offset is not one of the text
StrncpyRead(m, string, start, end) ==
    IF ~Running(m) THEN m
    ELSE IF WordLess(end, start)
            \/ WordLess(WordOfInt(m.strings[string].length), end)
    THEN Undefined(m, "read_outside_string")
    ELSE Touch(m, m.strings[string])

StrncpyBytes(m, string, start, end) ==
    IF WordLess(end, start) \/ WordLess(WordOfInt(m.strings[string].length), end)
    THEN <<>>
    ELSE SubSeq(m.strings[string].raw, IntOfLow32(start) + 1, IntOfLow32(end))

\* a substr that checks end < start and not end > length
aaa_string_substr_unchecked(m, string, start, end) ==
    IF ~Running(m) THEN m
    ELSE IF WordLess(end, start) THEN aaa_string_new(m, <<>>, FALSE)
    ELSE Bind([m1 \in {StrncpyRead(m, string, start, end)} |->
         aaa_string_new(m1, StrncpyBytes(m, string, start, end), TRUE)])

\* the string aaa_string_substr returns is NewString of its machine
aaa_string_substr(m, string, start, end) ==
    IF ~Running(m) THEN m
    ELSE IF ~aaa_string_substr_success(m, string, start, end)
    THEN aaa_string_new(m, <<>>, FALSE)
    ELSE Bind([m1 \in {StrncpyRead(m, string, start, end)} |->
         aaa_string_new(m1, StrncpyBytes(m, string, start, end), TRUE)])

\* strstr(raw + start, sep) - raw for start <= length: the offset of the
\* first occurrence of sep at or after start, NoMatch for the NULL of strstr;
\* the empty sep occurs at start
NoMatch == -1

StrStr(raw, start, sep) ==
    LET found == {p \in start..(Len(raw) - Len(sep)) :
                     SubSeq(raw, p + 1, p + Len(sep)) = sep}
    IN  IF found = {} THEN NoMatch ELSE Least(found)

\* end in an iteration of the loop of aaa_string_split
SplitEnd(m, string, sep, start) ==
    LET next_sep == StrStr(m.strings[string].raw, start, m.strings[sep].raw)
    IN  IF next_sep # NoMatch THEN next_sep ELSE m.strings[string].length

\* start after the iteration
SplitStart(m, string, sep, start) ==
    SplitEnd(m, string, sep, start) + m.strings[sep].length

\* one iteration of the loop of aaa_string_split
SplitBody(m, string, sep, vector, start) ==
    Bind([m1 \in {aaa_string_substr(m, string, WordOfInt(start),
                      WordOfInt(SplitEnd(m, string, sep, start)))} |->
    Bind([m2 \in {aaa_variable_new_str(m1, NewString(m1))} |->
    Bind([m3 \in {aaa_vector_push(m2, vector, NewVariable(m2))} |->
    aaa_variable_dec_ref(m3, NewVariable(m2))])])])

\* the loop from start on; it is evaluated for a sep that is not empty, the
\* programs that split on the empty text run the loop iteration by iteration
RECURSIVE SplitLoop(_, _, _, _, _)
SplitLoop(m, string, sep, vector, start) ==
    IF ~Running(m) \/ ~(start < m.strings[string].length) THEN m
    ELSE SplitLoop(SplitBody(m, string, sep, vector, start), string, sep,
                   vector, SplitStart(m, string, sep, start))

\* a split that returns the whole text as its one fragment
aaa_string_split_whole(m, string, sep) ==
    Bind([m1 \in {aaa_vector_new(m)} |->
    Bind([m2 \in {aaa_variable_new_str(m1, string)} |->
    Bind([m3 \in {aaa_vector_push(m2, NewVector(m1), NewVariable(m2))} |->
    IF ~Running(m3) THEN m3
        ELSE [m3 EXCEPT !.variables[NewVariable(m2)] = FreedVariable]])])])

\* the vector aaa_string_split returns is NewVector(aaa_vector_new(m))
aaa_string_split(m, string, sep) ==
    Bind([m1 \in {aaa_vector_new(m)} |->
    SplitLoop(m1, string, sep, NewVector(m1), 0)])

(***************************************************************************)
(* str.c: to_int.  strtol(raw, &end, 10) skips the white space at the      *)
(* start, takes a sign and the digits that follow, and leaves end behind   *)
(* the last digit, or at raw when there is no digit.  long has 64 bits: a  *)
(* value outside of long is LONG_MAX or LONG_MIN, outside of int as well.  *)
(***************************************************************************)
\* the bytes isspace and isdigit accept
IsSpace == {32, 9, 10, 11, 12, 13}
IsDigit == 48..57

\* the offset of the first byte from the offset from on that is not of kind
RECURSIVE SkipWhile(_, _, _)
SkipWhile(raw, from, kind) ==
    IF from < Len(raw) /\ raw[from + 1] \in kind
    THEN SkipWhile(raw, from + 1, kind) ELSE from

StrtolSign(raw) == SkipWhile(raw, 0, IsSpace)

StrtolNegative(raw) ==
    StrtolSign(raw) < Len(raw) /\ raw[StrtolSign(raw) + 1] = 45

\* the offset of the first digit, if there is one
StrtolFirst(raw) ==
    IF StrtolSign(raw) < Len(raw) /\ raw[StrtolSign(raw) + 1] \in {43, 45}
    THEN StrtolSign(raw) + 1 ELSE StrtolSign(raw)

StrtolDigits(raw) ==
    SubSeq(raw, StrtolFirst(raw) + 1, SkipWhile(raw, StrtolFirst(raw), IsDigit))

\* end - raw
StrtolEnd(raw) ==
    IF StrtolDigits(raw) = <<>> THEN 0
    ELSE SkipWhile(raw, StrtolFirst(raw), IsDigit)

RECURSIVE WithoutLeadingZeros(_)
WithoutLeadingZeros(digits) ==
    IF digits # <<>> /\ Head(digits) = 48
    THEN WithoutLeadingZeros(Tail(digits)) ELSE digits

\* a <= b of two digit sequences of the same length
RECURSIVE DigitsAtMost(_, _)
DigitsAtMost(a, b) ==
    IF a = <<>> THEN TRUE
    ELSE IF Head(a) # Head(b) THEN Head(a) < Head(b)
    ELSE DigitsAtMost(Tail(a), Tail(b))

\* 2147483647 and 2147483648
IntMaxDigits == <<50, 49, 52, 55, 52, 56, 51, 54, 52, 55>>
IntMinDigits == <<50, 49, 52, 55, 52, 56, 51, 54, 52, 56>>

\* converted > INT_MAX || converted < INT_MIN is false
ConvertedFitsInt(negative, digits) ==
    LET d == WithoutLeadingZeros(digits)
    IN  \/ Len(d) < 10
        \/ /\ Len(d) = 10
           /\ DigitsAtMost(d, IF negative THEN IntMinDigits ELSE IntMaxDigits)

\* minus the value of the digits, which is an int when the value fits
RECURSIVE MinusValue(_, _)
MinusValue(acc, digits) ==
    IF digits = <<>> THEN acc
    ELSE MinusValue((acc * 10) - (Head(digits) - 48), Tail(digits))

\* (int)converted
ConvertedInt(negative, digits) ==
    IF negative THEN MinusValue(0, digits) ELSE 0 - MinusValue(0, digits)

\* the values *success_out and *integer_out receive
aaa_string_to_int_success(m, string) ==
    LET raw == m.strings[string].raw
    IN  /\ ConvertedFitsInt(StrtolNegative(raw), StrtolDigits(raw))
        /\ StrtolEnd(raw) = m.strings[string].length

aaa_string_to_int_integer(m, string) ==
    LET raw == m.strings[string].raw
    IN  IF aaa_string_to_int_success(m, string)
        THEN ConvertedInt(StrtolNegative(raw), StrtolDigits(raw))
        ELSE 0

\* strtol reads the text up to its NUL at most
aaa_string_to_int(m, string) ==
    IF ~Running(m) THEN m ELSE Touch(m, m.strings[string])

(***************************************************************************)
(* stack.c: str_split and str_substr                                       *)
(***************************************************************************)
aaa_stack_str_split(m) ==
    LET sep == PoppedPayload(m)
    IN  Bind([m1 \in {aaa_stack_pop_str(m)} |->
    LET string == PoppedPayload(m1)
    IN  Bind([m2 \in {aaa_stack_pop_str(m1)} |->
    IF ~Running(m2) THEN m2
        ELSE Bind([m3 \in {aaa_string_split(m2, string, sep)} |->
             Bind([m4 \in {aaa_stack_push_vec(m3, NewVector(aaa_vector_new(m2)))} |->
             Bind([m5 \in {aaa_string_dec_ref(m4, sep)} |->
             aaa_string_dec_ref(m5, string)])])])])])

aaa_stack_str_substr(m) ==
    LET end == PoppedPayload(m)
    IN  Bind([m1 \in {aaa_stack_pop_int(m)} |->
    LET start == PoppedPayload(m1)
    IN  Bind([m2 \in {aaa_stack_pop_int(m1)} |->
    LET string == PoppedPayload(m2)
    IN  Bind([m3 \in {aaa_stack_pop_str(m2)} |->
    IF ~Running(m3) THEN m3
        ELSE Bind([m4 \in {aaa_string_substr(m3, string, WordOfInt(start),
                                             WordOfInt(end))} |->
             Bind([m5 \in {aaa_stack_push_str(m4, NewString(m4))} |->
             Bind([m6 \in {aaa_stack_push_bool(m5,
                              aaa_string_substr_success(m3, string,
                                  WordOfInt(start), WordOfInt(end)))} |->
             aaa_string_dec_ref(m6, string)])])])])])])

aaa_stack_str_to_int(m) ==
    LET string == PoppedPayload(m)
    IN  Bind([m1 \in {aaa_stack_pop_str(m)} |->
    IF ~Running(m1) THEN m1
        ELSE Bind([m2 \in {aaa_string_to_int(m1, string)} |->
             Bind([m3 \in {aaa_stack_push_int(m2,
                              aaa_string_to_int_integer(m1, string))} |->
             Bind([m4 \in {aaa_stack_push_bool(m3,
                              aaa_string_to_int_success(m1, string))} |->
             aaa_string_dec_ref(m4, string)])])])])

\* the string aaa_string_replace returns is NewString of its machine
aaa_string_replace(m, string, search, replace) ==
    IF ~Running(m) THEN m
    ELSE LET split == NewVector(aaa_vector_new(m))
         IN  Bind([m1 \in {aaa_string_split(m, string, search)} |->
             Bind([m2 \in {aaa_string_join(m1, replace, split)} |->
             aaa_vector_dec_ref(m2, split)])])

aaa_stack_str_replace(m) ==
    LET replace == PoppedPayload(m)
    IN  Bind([m1 \in {aaa_stack_pop_str(m)} |->
    LET search == PoppedPayload(m1)
    IN  Bind([m2 \in {aaa_stack_pop_str(m1)} |->
    LET string == PoppedPayload(m2)
    IN  Bind([m3 \in {aaa_stack_pop_str(m2)} |->
    Bind([m4 \in {aaa_string_replace(m3, string, search, replace)} |->
    Bind([m5 \in {aaa_stack_push_str(m4, NewString(m4))} |->
    Bind([m6 \in {aaa_string_dec_ref(m5, replace)} |->
    Bind([m7 \in {aaa_string_dec_ref(m6, search)} |->
    aaa_string_dec_ref(m7, string)])])])])])])])

\* string->raw + start is outside of the text and its NUL
FindStartsOutside(m, string, start) ==
    WordLess(WordOfInt(m.strings[string].length), start)

\* location - string->raw of aaa_string_find_after, NoMatch for NULL; inside
\* the text strstr stops at the NUL, outside of it beyond is what it finds
FindLocation(m, string, search, start, beyond) ==
    IF FindStartsOutside(m, string, start) THEN beyond
    ELSE StrStr(m.strings[string].raw, IntOfLow32(start),
                m.strings[search].raw)

\* the values *success_out and (int)*offset_out
aaa_string_find_after_success(m, string, search, start, beyond) ==
    FindLocation(m, string, search, start, beyond) # NoMatch

aaa_string_find_after_offset(m, string, search, start, beyond) ==
    IF aaa_string_find_after_success(m, string, search, start, beyond)
    THEN FindLocation(m, string, search, start, beyond) ELSE 0

aaa_string_find_after(m, string, search, start) ==
    IF ~Running(m) THEN m
    ELSE IF FindStartsOutside(m, string, start)
    THEN Undefined(m, "read_outside_string")
    ELSE Touch(Touch(m, m.strings[string]), m.strings[search])

\* found_beyond: strstr finds the search text where it starts, outside
aaa_stack_str_find_after(m, found_beyond) ==
    LET start == PoppedPayload(m)
        beyond == IF found_beyond THEN start ELSE NoMatch
    IN  Bind([m1 \in {aaa_stack_pop_int(m)} |->
    LET search == PoppedPayload(m1)
    IN  Bind([m2 \in {aaa_stack_pop_str(m1)} |->
    LET string == PoppedPayload(m2)
    IN  Bind([m3 \in {aaa_stack_pop_str(m2)} |->
    IF ~Running(m3) THEN m3
        ELSE Bind([m4 \in {aaa_string_find_after(m3, string, search,
                                                 WordOfInt(start))} |->
             Bind([m5 \in {aaa_stack_push_int(m4,
                              aaa_string_find_after_offset(m3, string, search,
                                  WordOfInt(start), beyond))} |->
             Bind([m6 \in {aaa_stack_push_bool(m5,
                              aaa_string_find_after_success(m3, string, search,
                                  WordOfInt(start), beyond))} |->
             Bind([m7 \in {aaa_string_dec_ref(m6, search)} |->
             aaa_string_dec_ref(m7, string)])])])])])])])

(***************************************************************************)
(* vector.c and var.c: aaa_vector_equals, and aaa_variable_equals on the   *)
(* kinds that cannot be hashed.  aaa_vector_get hands out a reference to   *)
(* each item, which aaa_vector_equals does not give back.                  *)
(***************************************************************************)
RECURSIVE aaa_vector_equals_result(_, _, _)

\* the value aaa_variable_equals returns, for vectors too
aaa_variable_equals_result(m, lhs, rhs) ==
    IF m.variables[lhs].kind # m.variables[rhs].kind THEN FALSE
    ELSE IF m.variables[lhs].kind = AAA_VECTOR
    THEN aaa_vector_equals_result(m, m.variables[lhs].payload,
                                  m.variables[rhs].payload)
    ELSE aaa_variable_equals(m, lhs, rhs)

\* the items are compared up to the first pair that differs
aaa_vector_equals_result(m, lhs, rhs) ==
    /\ m.vectors[lhs].size = m.vectors[rhs].size
    /\ \A i \in 0..(m.vectors[lhs].size - 1) :
          aaa_variable_equals_result(m, VectorSlot(m, lhs, i),
                                     VectorSlot(m, rhs, i))

RECURSIVE VectorEqualsLoop(_, _, _, _)

\* what a call of aaa_variable_equals does to the memory
aaa_variable_equals_call(m, lhs, rhs) ==
    IF ~Running(m) THEN m
    ELSE IF m.variables[lhs].kind # m.variables[rhs].kind THEN m
    ELSE IF m.variables[lhs].kind \in {AAA_BOOLEAN, AAA_INTEGER, AAA_STRING}
    THEN m
    ELSE IF m.variables[lhs].kind = AAA_VECTOR
    THEN IF m.vectors[m.variables[lhs].payload].size
               # m.vectors[m.variables[rhs].payload].size THEN m
         ELSE VectorEqualsLoop(m, m.variables[lhs].payload,
                               m.variables[rhs].payload, 0)
    ELSE Fatal(m, "abort")

\* the loop of aaa_vector_equals from the offset i on
VectorEqualsLoop(m, lhs, rhs, i) ==
    IF ~Running(m) \/ i >= m.vectors[lhs].size THEN m
    ELSE LET lhs_item == VectorSlot(m, lhs, i)
             rhs_item == VectorSlot(m, rhs, i)
         IN  Bind([m1 \in {aaa_vector_get(m, lhs, i)} |->
             Bind([m2 \in {aaa_vector_get(m1, rhs, i)} |->
             Bind([m3 \in {aaa_variable_equals_call(m2, lhs_item, rhs_item)} |->
             IF ~Running(m3) THEN m3
                 ELSE IF ~aaa_variable_equals_result(m2, lhs_item, rhs_item)
                 THEN m3
                 ELSE VectorEqualsLoop(m3, lhs, rhs, i + 1)])])])

aaa_vector_equals(m, lhs, rhs) ==
    IF ~Running(m) THEN m
    ELSE IF m.vectors[lhs].size # m.vectors[rhs].size THEN m
    ELSE VectorEqualsLoop(m, lhs, rhs, 0)

(***************************************************************************)
(* stack.c: the opcodes that call the system.  What the system call        *)
(* returns is a parameter of the operator.                                 *)
(***************************************************************************)
\* written is (int)write(fd, data_raw, length)
aaa_stack_write(m, written) ==
    LET data == PoppedPayload(m)
    IN  Bind([m1 \in {aaa_stack_pop_str(m)} |->
    Bind([m2 \in {aaa_stack_pop_int(m1)} |->
    IF ~Running(m2) THEN m2
        ELSE Bind([m3 \in {aaa_stack_push_int(m2,
                              IF written < 0 THEN 0 ELSE written)} |->
             Bind([m4 \in {aaa_stack_push_bool(m3, ~(written < 0))} |->
             aaa_string_dec_ref(m4, data)])])])])

\* resolved is getaddrinfo(...) and success is connect(...); the returns
\* before the last line leave domain_name with the reference of pop_str
aaa_stack_connect(m, resolved, success) ==
    LET port == PoppedPayload(m)
    IN  Bind([m1 \in {aaa_stack_pop_int(m)} |->
    LET domain_name == PoppedPayload(m1)
    IN  Bind([m2 \in {aaa_stack_pop_str(m1)} |->
    Bind([m3 \in {aaa_stack_pop_int(m2)} |->
    IF ~Running(m3) THEN m3
        ELSE IF port >= 65536 \/ port < 0
        THEN aaa_stack_push_bool(m3, FALSE)
        ELSE IF resolved # 0
        THEN aaa_stack_push_bool(m3, FALSE)
        ELSE Bind([m4 \in {aaa_stack_push_bool(m3, success = 0)} |->
             aaa_string_dec_ref(m4, domain_name)])])])])

\* synced is fsync(fd)
aaa_stack_fsync(m, synced) ==
    Bind([m1 \in {aaa_stack_pop_int(m)} |->
    Bind([m2 \in {IF Running(m1) /\ synced = -1
                  THEN aaa_stack_push_bool(m1, FALSE) ELSE m1} |->
    aaa_stack_push_bool(m2, TRUE)])])

\* changed_pid is waitpid(pid, NULL, options)
aaa_stack_waitpid(m, changed_pid) ==
    Bind([m1 \in {aaa_stack_pop_int(m)} |->
    Bind([m2 \in {aaa_stack_pop_int(m1)} |->
    IF ~Running(m2) THEN m2
        ELSE IF changed_pid = 0
        THEN Bind([m3 \in {aaa_stack_push_int(m2, 0)} |->
             aaa_stack_push_bool(m3, FALSE)])
        ELSE Bind([m3 \in {aaa_stack_push_int(m2, changed_pid)} |->
             aaa_stack_push_bool(m3, TRUE)])])])

(***************************************************************************)
(* src/aaa/transpiler/aaa.c: the stack of the legacy runtime, an array of  *)
(* values held in place.  legacy.data holds the slots that were written,   *)
(* the ones above legacy.size too: a pop leaves its value in the slot.  A  *)
(* slot that was never written holds whatever malloc has left there; the   *)
(* value is the parameter garbage of the operators that read such a slot.  *)
(* A boolean is held as 0 or 1.                                            *)
(***************************************************************************)
LegacyStackMaxSize == 1024

Uninitialized == [kind |-> "uninitialized", payload |-> 0]

legacy_aaa_stack_init == [size |-> 0, data |-> <<>>, status |-> "running"]

\* stack->data[i - 1], for i from 1 on
LegacySlot(lg, i, garbage) ==
    IF i \in 1..Len(lg.data) /\ lg.data[i] # Uninitialized THEN lg.data[i]
    ELSE garbage

LegacyStore(lg, i, value) ==
    [lg EXCEPT !.data =
        [k \in 1..(IF i > Len(@) THEN i ELSE Len(@)) |->
            IF k = i THEN value
            ELSE IF k <= Len(@) THEN @[k] ELSE Uninitialized]]

legacy_aaa_stack_prevent_underflow(lg, pop_count) ==
    IF lg.status = "running" /\ lg.size < pop_count
    THEN [lg EXCEPT !.status = "underflow"] ELSE lg

legacy_aaa_stack_prevent_overflow(lg, push_count) ==
    IF lg.status = "running" /\ lg.size + push_count >= LegacyStackMaxSize
    THEN [lg EXCEPT !.status = "overflow"] ELSE lg

\* the slot returned is the one at the new size
legacy_aaa_stack_push(lg) ==
    LET checked == legacy_aaa_stack_prevent_overflow(lg, 1)
    IN  IF checked.status # "running" THEN checked
        ELSE [checked EXCEPT !.size = @ + 1]

\* the slot returned is the one above the new size
legacy_aaa_stack_pop(lg) ==
    LET checked == legacy_aaa_stack_prevent_underflow(lg, 1)
    IN  IF checked.status # "running" THEN checked
        ELSE [checked EXCEPT !.size = @ - 1]

legacy_aaa_stack_push_int(lg, value) ==
    LET pushed == legacy_aaa_stack_push(lg)
    IN  IF pushed.status # "running" THEN pushed
        ELSE LegacyStore(pushed, pushed.size,
                         [kind |-> AAA_INTEGER, payload |-> value])

legacy_aaa_stack_push_bool(lg, value) ==
    LET pushed == legacy_aaa_stack_push(lg)
    IN  IF pushed.status # "running" THEN pushed
        ELSE LegacyStore(pushed, pushed.size,
                         [kind |-> AAA_BOOLEAN,
                          payload |-> IF value THEN 1 ELSE 0])

\* *dupped = *top
legacy_aaa_stack_dup(lg, garbage) ==
    LET top == LegacySlot(lg, lg.size, garbage)
        pushed == legacy_aaa_stack_push(lg)
    IN  IF pushed.status # "running" THEN pushed
        ELSE LegacyStore(pushed, pushed.size, top)

legacy_aaa_stack_swap(lg, garbage) ==
    LET checked == legacy_aaa_stack_prevent_underflow(lg, 2)
        top == LegacySlot(lg, lg.size, garbage)
        below == LegacySlot(lg, lg.size - 1, garbage)
    IN  IF checked.status # "running" THEN checked
        ELSE LegacyStore(LegacyStore(lg, lg.size, below), lg.size - 1, top)

\* top is the slot that the push has just added, which was not written by
\* it, and original the one two below: *original = *top
legacy_aaa_stack_over(lg, garbage) ==
    LET checked == legacy_aaa_stack_prevent_underflow(lg, 2)
        pushed == legacy_aaa_stack_push(checked)
        top == LegacySlot(pushed, pushed.size, garbage)
    IN  IF pushed.status # "running" THEN pushed
        ELSE LegacyStore(LegacyStore(pushed, pushed.size, top),
                         pushed.size - 2, top)

legacy_aaa_stack_rot(lg, garbage) ==
    LET checked == legacy_aaa_stack_prevent_underflow(lg, 3)
        c == LegacySlot(lg, lg.size, garbage)
        b == LegacySlot(lg, lg.size - 1, garbage)
        a == LegacySlot(lg, lg.size - 2, garbage)
    IN  IF checked.status # "running" THEN checked
        ELSE LegacyStore(LegacyStore(LegacyStore(lg, lg.size - 2, b),
                                     lg.size - 1, c), lg.size, a)

legacy_aaa_stack_drop(lg) == legacy_aaa_stack_pop(lg)

(***************************************************************************)
(* The opcodes as actions                                                  *)
(***************************************************************************)
\* the outcomes of an undefined operation
Outcomes == {"fault", "carry_on"}

PushInts == {0, 1}
PushStrings == {<<97>>}
ArithInts == {INT_MIN, -1, 0, 3, 4}

\* The bounds of the model: the depth of the stack (counted from the empty
\* stack or down from the full one), the slots of the heap beside those of
\* a full stack, the reference counts and the magnitude of the integers
\* (counted from 0 or from the ends of the range of int).
DepthBase(n) == IF n <= MaxDepth THEN 0 ELSE StackMaxSize - 1 - MaxDepth

IntWithinBounds(i) ==
    \/ i >= -MaxAbs /\ i <= MaxAbs
    \/ i >= INT_MAX - 1
    \/ i <= INT_MIN + 1

WithinBounds(m) ==
    /\ Running(m) =>
          \/ Len(m.stack) <= MaxDepth
          \/ Len(m.stack) >= StackMaxSize - 1 - MaxDepth
    /\ \A table \in {m.variables, m.strings, m.vectors, m.maps, m.structs,
                      m.vector_iters, m.map_iters, m.buffers} :
          Cardinality({i \in 1..Len(table) : ~Freed(table[i])})
              <= DepthBase(Len(m.stack)) + MaxVars
    /\ {s \in 1..Len(m.strings) : m.strings[s].length > MaxText} = {}
    /\ {v \in 1..Len(m.variables) :
            \/ m.variables[v].ref_count > MaxRefs
            \/ /\ m.variables[v].kind = AAA_INTEGER
               /\ ~IntWithinBounds(m.variables[v].payload)} = {}

\* The heap of a process that goes on: freed memory above the last live
\* object of a table is given back.  A process that has exited has no memory.
RECURSIVE Trimmed(_)
Trimmed(table) ==
    IF table # <<>> /\ Freed(table[Len(table)])
    THEN Trimmed(SubSeq(table, 1, Len(table) - 1))
    ELSE table

Kept(m, table) == IF Running(m) THEN Trimmed(table) ELSE <<>>

\* The program runs opcode op and the machine becomes m; flags are the
\* undefined operations of this opcode.  last is the call: the opcode and the
\* value it returned to the program.
CommitRuntime(op, m) ==
    /\ stack' = IF Running(m) THEN m.stack ELSE <<>>
    /\ variables' = Kept(m, m.variables)
    /\ strings' = Kept(m, m.strings)
    /\ vectors' = Kept(m, m.vectors)
    /\ maps' = Kept(m, m.maps)
    /\ structs' = Kept(m, m.structs)
    /\ vector_iters' = Kept(m, m.vector_iters)
    /\ map_iters' = Kept(m, m.map_iters)
    /\ buffers' = Kept(m, m.buffers)
    /\ locals' = IF Running(m) THEN m.locals ELSE NoLocals
    /\ status' = m.status
    /\ flags' = m.flags
    /\ last' = op

\* the opcodes of src/c leave the stack of the legacy runtime alone
CommitTo(op, m) ==
    /\ CommitRuntime(op, m)
    /\ legacy' = legacy

Commit(op, m) ==
    /\ WithinBounds(m)
    /\ CommitTo(op, m)

\* an opcode whose code has no undefined operation on the current state
\* has one outcome
RunAs(call, op(_)) ==
    \/ Commit(call, op(Machine("fault")))
    \/ /\ op(Machine("fault")).status = "fault"
       /\ Commit(call, op(Machine("carry_on")))

Run(name, op(_)) == RunAs([op |-> name, value |-> NULL], op)

PushIntOf(values) ==
    \E value \in values :
        Run("push_int", LAMBDA m : aaa_stack_push_int(m, value))

PushInt ==
    /\ status = "running"
    /\ PushIntOf(PushInts)

PushZero ==
    /\ status = "running"
    /\ PushIntOf({0})

PushArith ==
    /\ status = "running"
    /\ PushIntOf(ArithInts)

PushBoolOf(values) ==
    \E value \in values :
        Run("push_bool", LAMBDA m : aaa_stack_push_bool(m, value))

PushBool ==
    /\ status = "running"
    /\ PushBoolOf(BOOLEAN)

PushTrue ==
    /\ status = "running"
    /\ PushBoolOf({TRUE})

PushStrOf(freeables) ==
    \E raw \in PushStrings, freeable \in freeables :
        Run("push_str", LAMBDA m : aaa_stack_push_str_raw(m, raw, freeable))

PushStr ==
    /\ status = "running"
    /\ PushStrOf(BOOLEAN)

\* a literal of the program: its bytes are never freed
PushLiteral ==
    /\ status = "running"
    /\ PushStrOf({FALSE})

Plus ==
    /\ status = "running"
    /\ Run("plus", aaa_stack_plus)

Minus ==
    /\ status = "running"
    /\ Run("minus", aaa_stack_minus)

Multiply ==
    /\ status = "running"
    /\ Run("multiply", aaa_stack_multiply)

Divide ==
    /\ status = "running"
    /\ Run("divide", aaa_stack_divide)

Modulo ==
    /\ status = "running"
    /\ Run("modulo", aaa_stack_modulo)

PushVecEmpty ==
    /\ status = "running"
    /\ Run("push_vec_empty", aaa_stack_push_vec_empty)

PushMapEmpty ==
    /\ status = "running"
    /\ Run("push_map_empty", aaa_stack_push_map_empty)

Dup ==
    /\ status = "running"
    /\ Run("dup", aaa_stack_dup)

Swap ==
    /\ status = "running"
    /\ Run("swap", aaa_stack_swap)

Over ==
    /\ status = "running"
    /\ Run("over", aaa_stack_over)

Rot ==
    /\ status = "running"
    /\ Run("rot", aaa_stack_rot)

Drop ==
    /\ status = "running"
    /\ Run("drop", aaa_stack_drop)

VecPush ==
    /\ status = "running"
    /\ Run("vec_push", aaa_stack_vec_push)

VecPop ==
    /\ status = "running"
    /\ Run("vec_pop", aaa_stack_vec_pop)

VecGet ==
    /\ status = "running"
    /\ Run("vec_get", aaa_stack_vec_get)

VecSet ==
    /\ status = "running"
    /\ Run("vec_set", aaa_stack_vec_set)

MapSet ==
    /\ status = "running"
    /\ Run("map_set", aaa_stack_map_set)

MapGet ==
    /\ status = "running"
    /\ Run("map_get", aaa_stack_map_get)

MapPop ==
    /\ status = "running"
    /\ Run("map_pop", aaa_stack_map_pop)

MapDrop ==
    /\ status = "running"
    /\ Run("map_drop", aaa_stack_map_drop)

\* The values a program builds with the constructors of var.c and pushes
PushSet ==
    /\ status = "running"
    /\ Run("push_set", LAMBDA m :
          Bind([m1 \in {aaa_variable_new_set_zero_value(m)} |->
          aaa_stack_push(m1, NewVariable(m1))]))

PushStruct ==
    /\ status = "running"
    /\ Run("push_struct", LAMBDA m :
          Bind([m1 \in {aaa_struct_new(m, <<115>>)} |->
          aaa_stack_push_struct(m1, NewStruct(m1))]))

\* an iterator over a new vector, which the iterator alone holds
PushVecIter ==
    /\ status = "running"
    /\ Run("push_vec_iter", LAMBDA m :
          Bind([m1 \in {aaa_vector_new(m)} |->
          Bind([m2 \in {aaa_vector_iter_new(m1, NewVector(m1))} |->
          Bind([m3 \in {aaa_variable_new_vector_iter(m2, NewVectorIter(m2))} |->
          Bind([m4 \in {aaa_stack_push(m3, NewVariable(m3))} |->
          aaa_vector_dec_ref(m4, NewVector(m1))])])])]))

PushMapIter ==
    /\ status = "running"
    /\ Run("push_map_iter", LAMBDA m :
          Bind([m1 \in {aaa_map_new(m)} |->
          Bind([m2 \in {aaa_map_iter_new(m1, NewMap(m1))} |->
          Bind([m3 \in {aaa_variable_new_map_iter(m2, NewMapIter(m2))} |->
          Bind([m4 \in {aaa_stack_push(m3, NewVariable(m3))} |->
          aaa_map_dec_ref(m4, NewMap(m1))])])])]))

\* A typed pop, called as the opcodes call it: the caller receives the
\* payload and, of a Text, vector, map or struct, releases the reference it
\* was given
PopCall(name, pop(_), release(_, _)) ==
    RunAs([op |-> name, value |-> PoppedPayload(Machine("fault"))],
          LAMBDA m : Bind([m1 \in {pop(m)} |->
                     release(m1, PoppedPayload(m))]))

NothingToRelease(m, payload) == m

PopInt ==
    /\ status = "running"
    /\ PopCall("pop_int", aaa_stack_pop_int, NothingToRelease)

PopBool ==
    /\ status = "running"
    /\ PopCall("pop_bool", aaa_stack_pop_bool, NothingToRelease)

PopStr ==
    /\ status = "running"
    /\ PopCall("pop_str", aaa_stack_pop_str, aaa_string_dec_ref)

PopVec ==
    /\ status = "running"
    /\ PopCall("pop_vec", aaa_stack_pop_vec, aaa_vector_dec_ref)

PopMap ==
    /\ status = "running"
    /\ PopCall("pop_map", aaa_stack_pop_map, aaa_map_dec_ref)

PopStruct ==
    /\ status = "running"
    /\ PopCall("pop_struct", aaa_stack_pop_struct, aaa_struct_dec_ref)

ReprStrings == {<<97>>, <<34>>}

PushText ==
    /\ status = "running"
    /\ \E raw \in ReprStrings :
          Run("push_str", LAMBDA m : aaa_stack_push_str_raw(m, raw, FALSE))

Repr ==
    /\ status = "running"
    /\ Run("repr", aaa_stack_repr)

StrJoin ==
    /\ status = "running"
    /\ Run("str_join", aaa_stack_str_join)

(***************************************************************************)
(* The programs that work on maps: they hold a map, a copy of it or an     *)
(* iterator on the stack beside a key and a value, so their stack is one   *)
(* deeper and their heap larger than those of the programs above.          *)
(***************************************************************************)
LiveCount(table) == Cardinality({i \in 1..Len(table) : ~Freed(table[i])})

\* the keys and the values the programs push: 6 and "o" hash to the last
\* bucket of a table of 16 buckets
MapInts == {6}
MapStrings == {<<111>>}

WithinMapBounds(m) ==
    /\ Len(m.stack) <= MapDepth
    /\ LiveCount(m.maps) <= MaxMaps
    /\ LiveCount(m.map_iters) <= MaxIters
    /\ {map \in 1..Len(m.maps) : m.maps[map].size > MaxKeys} = {}
    /\ LiveCount(m.variables) <= MapDepth + 2 + (2 * MaxMaps * MaxKeys)
    /\ {v \in 1..Len(m.variables) : m.variables[v].ref_count > MaxRefs} = {}

RunMapAs(call, op(_)) ==
    \E faulted \in {op(Machine("fault"))} :
        \/ /\ WithinMapBounds(faulted)
           /\ CommitTo(call, faulted)
        \/ /\ faulted.status = "fault"
           /\ \E carried \in {op(Machine("carry_on"))} :
                 /\ WithinMapBounds(carried)
                 /\ CommitTo(call, carried)

RunMap(name, op(_)) == RunMapAs([op |-> name, value |-> NULL], op)

\* the kind of the variable at depth d of the stack (1 is the top), "none"
\* below the bottom
KindAt(d) ==
    IF d > Len(stack) \/ d < 1 THEN "none"
    ELSE IF stack[Len(stack) + 1 - d] \notin 1..Len(variables) THEN "none"
    ELSE variables[stack[Len(stack) + 1 - d]].kind

\* The programs of the model keep one map (or set) at the bottom of the
\* stack and run an opcode on a second reference to it; they push a key on
\* a map and a value on a key.
\* A loop over a map is `while (aaa_map_iter_next(iter, &key, &value))', as in
\* aaa_map_repr and aaa_map_copy: it runs no opcode before the call returns
\* false.
InLoop == locals.key # NULL

IsMapKind(kind) == kind \in {AAA_MAP, AAA_SET}
KeyPlace == IsMapKind(KindAt(1))
ValuePlace == IsMapKind(KindAt(2))

MapPushMapEmpty ==
    /\ status = "running"
    /\ ~InLoop
    /\ stack = <<>>
    /\ RunMap("push_map_empty", aaa_stack_push_map_empty)

MapPushInt ==
    /\ status = "running"
    /\ ~InLoop
    /\ KeyPlace \/ ValuePlace
    /\ \E value \in MapInts :
          RunMap("push_int", LAMBDA m : aaa_stack_push_int(m, value))

MapPushBool ==
    /\ status = "running"
    /\ ~InLoop
    /\ KeyPlace
    /\ RunMap("push_bool", LAMBDA m : aaa_stack_push_bool(m, TRUE))

MapPushStr ==
    /\ status = "running"
    /\ ~InLoop
    /\ KeyPlace \/ ValuePlace
    /\ \E raw \in MapStrings :
          RunMap("push_str", LAMBDA m : aaa_stack_push_str_raw(m, raw, FALSE))

\* the keys of the kinds that cannot be hashed; a Map is one after dup,
\* an iterator after map_iter_new
MapPushSet ==
    /\ status = "running"
    /\ ~InLoop
    /\ stack = <<>> \/ KeyPlace
    /\ RunMap("push_set", LAMBDA m :
          Bind([m1 \in {aaa_variable_new_set_zero_value(m)} |->
          aaa_stack_push(m1, NewVariable(m1))]))

MapPushVecEmpty ==
    /\ status = "running"
    /\ ~InLoop
    /\ KeyPlace
    /\ RunMap("push_vec_empty", aaa_stack_push_vec_empty)

MapPushStruct ==
    /\ status = "running"
    /\ ~InLoop
    /\ KeyPlace
    /\ RunMap("push_struct", LAMBDA m :
          Bind([m1 \in {aaa_struct_new(m, <<115>>)} |->
          aaa_stack_push_struct(m1, NewStruct(m1))]))

MapDup ==
    /\ status = "running"
    /\ ~InLoop
    /\ Len(stack) = 1
    /\ RunMap("dup", aaa_stack_dup)

MapDropTop ==
    /\ status = "running"
    /\ ~InLoop
    /\ RunMap("drop", aaa_stack_drop)

\* whether aaa_map_set(map, key, value) finds the key, for a map and a key
\* of a hashable kind under the value on top of the stack
SetFindsKey ==
    /\ IsMapKind(KindAt(3))
    /\ KindAt(2) \in {AAA_INTEGER, AAA_BOOLEAN, AAA_STRING}
    /\ aaa_map_has_key(Machine("fault"),
                       variables[stack[Len(stack) - 2]].payload,
                       stack[Len(stack) - 1])

\* last.replaced is the branch that aaa_map_set takes
MapSetKey ==
    /\ status = "running"
    /\ ~InLoop
    /\ RunMapAs([op |-> "map_set", value |-> NULL, replaced |-> SetFindsKey],
                aaa_stack_map_set)

MapGetKey ==
    /\ status = "running"
    /\ ~InLoop
    /\ RunMap("map_get", aaa_stack_map_get)

MapHasKey ==
    /\ status = "running"
    /\ ~InLoop
    /\ RunMap("map_has_key", aaa_stack_map_has_key)

MapPopKey ==
    /\ status = "running"
    /\ ~InLoop
    /\ RunMap("map_pop", aaa_stack_map_pop)

\* whether map_drop is given a map and a key of a hashable kind that the
\* map does not hold
DropMisses ==
    /\ IsMapKind(KindAt(2))
    /\ KindAt(1) \in {AAA_INTEGER, AAA_BOOLEAN, AAA_STRING}
    /\ ~aaa_map_has_key(Machine("fault"),
                        variables[stack[Len(stack) - 1]].payload,
                        stack[Len(stack)])

\* last.missing tells that the key was not in the map
MapDropKey ==
    /\ status = "running"
    /\ ~InLoop
    /\ RunMapAs([op |-> "map_drop", value |-> NULL, missing |-> DropMisses],
                aaa_stack_map_drop)

\* the released entries that the buckets of the maps still refer to
ClearedEntries ==
    Flatten([map \in 1..Len(maps) |->
                SelectSeq(Flatten(maps[map].buckets), LAMBDA item : item.freed)])

MapClear ==
    /\ status = "running"
    /\ ~InLoop
    /\ KindAt(1) = AAA_MAP
    /\ Len(ClearedEntries) < MaxCleared
    /\ RunMap("map_clear", aaa_stack_map_clear)

MapSize ==
    /\ status = "running"
    /\ ~InLoop
    /\ RunMap("map_size", aaa_stack_map_size)

MapCopy ==
    /\ status = "running"
    /\ ~InLoop
    /\ RunMap("map_copy", aaa_stack_map_copy)

\* The program takes the map off the stack and pushes an iterator over it
MapIterNew ==
    /\ status = "running"
    /\ ~InLoop
    /\ RunMap("map_iter_new", LAMBDA m :
          LET map == PoppedPayload(m)
          IN  Bind([m1 \in {aaa_stack_pop_map(m)} |->
              IF ~Running(m1) THEN m1
              ELSE Bind([m2 \in {aaa_map_iter_new(m1, map)} |->
                   Bind([m3 \in {aaa_variable_new_map_iter(m2, NewMapIter(m2))} |->
                   Bind([m4 \in {aaa_stack_push(m3, NewVariable(m3))} |->
                   aaa_map_dec_ref(m4, map)])])])]))

\* the key and the value that the calls of a loop have handed out so far,
\* this call included
Yielded(iter) ==
    (IF last.op = "map_iter_next" THEN last.yielded ELSE <<>>)
        \o (IF aaa_map_iter_next_result(Machine("fault"), iter)
            THEN <<[key |-> aaa_map_iter_next_key(Machine("fault"), iter,
                                                  locals.key),
                    value |-> aaa_map_iter_next_value(Machine("fault"), iter,
                                                      locals.key, locals.value)]>>
            ELSE <<>>)

\* The program calls aaa_map_iter_next(iter, &key, &value) on the iterator
\* on top of the stack, in a loop that starts with a new iterator;
\* last.value is what the call returns
MapIterNext ==
    /\ status = "running"
    /\ KindAt(1) = AAA_MAP_ITER
    /\ last.op \in {"map_iter_new", "map_iter_next"}
    /\ LET iter == PoppedPayload(Machine("fault"))
       IN  RunMapAs([op |-> "map_iter_next",
                     value |-> aaa_map_iter_next_result(Machine("fault"), iter),
                     yielded |-> Yielded(iter)],
                    LAMBDA m :
              Bind([m1 \in {aaa_map_iter_next(m, iter, m.locals.key,
                                              m.locals.value)} |->
              IF ~Running(m1) THEN m1
              ELSE [m1 EXCEPT
                      !.locals.key =
                          aaa_map_iter_next_key(m, iter, m.locals.key),
                      !.locals.value =
                          aaa_map_iter_next_value(m, iter, m.locals.key,
                                                  m.locals.value)]]))

(***************************************************************************)
(* The programs that compare and hash keys: they push two values of the    *)
(* kinds that can be hashed, compare them, store the second under the      *)
(* first in a new map and look a third one up.  A Text is pushed with its  *)
(* bytes owned by the string (freeable) or not.                            *)
(***************************************************************************)
HashInts == {0, 1, 6, 22}

HashStrings == {<<>>, <<111>>, <<47>>, <<111, 111>>}

\* the first key and its value are pushed on an empty map, later keys on the
\* map that holds them
HashPlace ==
    \/ Len(stack) = 2 /\ KeyPlace
    \/ Len(stack) = 3 /\ ValuePlace /\ maps[variables[stack[2]].payload].size = 0

HashPushInt ==
    /\ status = "running"
    /\ HashPlace
    /\ \E value \in HashInts :
          RunMap("push_int", LAMBDA m : aaa_stack_push_int(m, value))

HashPushBool ==
    /\ status = "running"
    /\ HashPlace
    /\ \E value \in BOOLEAN :
          RunMap("push_bool", LAMBDA m : aaa_stack_push_bool(m, value))

HashPushStr ==
    /\ status = "running"
    /\ HashPlace
    /\ \E raw \in HashStrings, freeable \in BOOLEAN :
          RunMap("push_str", LAMBDA m : aaa_stack_push_str_raw(m, raw, freeable))

\* whether the Text that variable var holds owns its bytes
OwnedBy(var) ==
    IF variables[var].kind # AAA_STRING THEN "no text"
    ELSE IF strings[variables[var].payload].freeable THEN "owned"
    ELSE "not owned"

\* aaa_variable_equals and aaa_variable_hash on the two values on top of
\* the stack, as aaa_map_get_item calls them on a key and the key of an
\* item
HashCompare ==
    /\ status = "running"
    /\ Len(stack) = 4
    /\ last.op # "equals"
    /\ \E lhs \in {stack[3]}, rhs \in {stack[4]} :
          RunMapAs([op |-> "equals",
                    value |-> aaa_variable_equals(Machine("fault"), lhs, rhs),
                    lhs_hash |-> aaa_variable_hash(Machine("fault"), lhs),
                    rhs_hash |-> aaa_variable_hash(Machine("fault"), rhs),
                    owned |-> <<OwnedBy(lhs), OwnedBy(rhs)>>],
                   LAMBDA m : m)

\* last.owned is the ownership of the key the lookup is made with
HashMapGet ==
    /\ status = "running"
    /\ Len(stack) = 3
    /\ RunMapAs([op |-> "map_get", value |-> NULL, owned |-> OwnedBy(stack[3])],
                aaa_stack_map_get)

(***************************************************************************)
(* The programs that fill one map: they store the keys 0, 1, 2, ... in     *)
(* this order, each with itself as its value, and look them up.            *)
(***************************************************************************)
WithinGrowBounds(m) ==
    /\ Len(m.stack) <= MapDepth
    /\ LiveCount(m.maps) <= 1
    /\ {map \in 1..Len(m.maps) : m.maps[map].size > MaxGrowKeys} = {}
    /\ {v \in 1..Len(m.variables) : m.variables[v].ref_count > MaxRefs} = {}

RunGrowAs(call, op(_)) ==
    \E faulted \in {op(Machine("fault"))} :
        \/ /\ WithinGrowBounds(faulted)
           /\ CommitTo(call, faulted)
        \/ /\ faulted.status = "fault"
           /\ \E carried \in {op(Machine("carry_on"))} :
                 /\ WithinGrowBounds(carried)
                 /\ CommitTo(call, carried)

RunGrow(name, op(_)) == RunGrowAs([op |-> name, value |-> NULL], op)

GrowPushMapEmpty ==
    /\ status = "running"
    /\ stack = <<>>
    /\ RunGrow("push_map_empty", aaa_stack_push_map_empty)

\* the next new key, or one that the map holds
GrowPushKey ==
    /\ status = "running"
    /\ Len(stack) = 2
    /\ KeyPlace
    /\ \E key \in 0..maps[variables[stack[2]].payload].size :
          /\ key < MaxGrowKeys
          /\ RunGrow("push_int", LAMBDA m : aaa_stack_push_int(m, key))

GrowDup ==
    /\ status = "running"
    /\ Len(stack) \in {1, 3}
    /\ RunGrow("dup", aaa_stack_dup)

GrowDrop ==
    /\ status = "running"
    /\ RunGrow("drop", aaa_stack_drop)

GrowMapSet ==
    /\ status = "running"
    /\ RunGrowAs([op |-> "map_set", value |-> NULL, replaced |-> SetFindsKey],
                 aaa_stack_map_set)

GrowMapGet ==
    /\ status = "running"
    /\ RunGrow("map_get", aaa_stack_map_get)

(***************************************************************************)
(* The programs on vectors.  They keep a vector at the bottom of the       *)
(* stack and run an opcode on a second reference to it; an Integer is      *)
(* pushed on a vector, as the element of vec_push or the offset of vec_get *)
(* and vec_set, or on an offset, as the value of vec_set.                  *)
(***************************************************************************)
VecInts == {-1, 0, 1, 2, 3}

WithinVecBounds(m) ==
    /\ Len(m.stack) <= VecDepth
    /\ LiveCount(m.vectors) <= MaxVecs
    /\ LiveCount(m.vector_iters) <= MaxIters
    /\ {vec \in 1..Len(m.vectors) : m.vectors[vec].size > MaxElems} = {}
    /\ LiveCount(m.variables) <= VecDepth + (MaxVecs * MaxElems)
    /\ {v \in 1..Len(m.variables) : m.variables[v].ref_count > MaxVecRefs} = {}

RunVecAs(call, op(_)) ==
    \E faulted \in {op(Machine("fault"))} :
        \/ /\ WithinVecBounds(faulted)
           /\ CommitTo(call, faulted)
        \/ /\ faulted.status = "fault"
           /\ \E carried \in {op(Machine("carry_on"))} :
                 /\ WithinVecBounds(carried)
                 /\ CommitTo(call, carried)

RunVec(name, op(_)) == RunVecAs([op |-> name, value |-> NULL], op)

\* A loop over a vector is `while (aaa_vector_iter_next(iter, &item))', as in
\* aaa_vector_repr and aaa_vector_copy: it runs no opcode before the call
\* returns false.
VecInLoop == locals.item # NULL

ElemPlace == KindAt(1) = AAA_VECTOR

NewValuePlace == Len(stack) = 3 /\ KindAt(2) = AAA_VECTOR /\ KindAt(1) = AAA_INTEGER

VecPushVecEmpty ==
    /\ status = "running"
    /\ ~VecInLoop
    /\ stack = <<>>
    /\ RunVec("push_vec_empty", aaa_stack_push_vec_empty)

VecPushInt ==
    /\ status = "running"
    /\ ~VecInLoop
    /\ (Len(stack) \in {2, 3} /\ ElemPlace) \/ NewValuePlace
    /\ \E value \in VecInts :
          RunVec("push_int", LAMBDA m : aaa_stack_push_int(m, value))

VecDup ==
    /\ status = "running"
    /\ ~VecInLoop
    /\ Len(stack) = 1
    /\ RunVec("dup", aaa_stack_dup)

\* a third reference, for the opcode that follows a vec_push at once
VecDupAgain ==
    /\ status = "running"
    /\ ~VecInLoop
    /\ Len(stack) = 2
    /\ ElemPlace
    /\ RunVec("dup", aaa_stack_dup)

\* the program drops what an opcode has answered; vec_get and vec_set end it
VecDropTop ==
    /\ status = "running"
    /\ ~VecInLoop
    /\ last.op \notin {"vec_get", "vec_set"}
    /\ RunVec("drop", aaa_stack_drop)

\* the vector of the opcode, its elements before the opcode and the element
\* it is given
VecOperand(d) ==
    IF KindAt(d) # AAA_VECTOR THEN NULL
    ELSE variables[stack[Len(stack) + 1 - d]].payload

ElementsOf(vs, xs, vec) ==
    [i \in 1..Len(xs[vec].data) |->
        IF xs[vec].data[i] \in 1..Len(vs)
        THEN <<vs[xs[vec].data[i]].kind, vs[xs[vec].data[i]].payload>>
        ELSE <<"garbage">>]

\* last.vec is the vector that vec_push pushes on, last.before its elements
\* before the push and last.pushed the element
VecPushTop ==
    /\ status = "running"
    /\ ~VecInLoop
    /\ Len(stack) \in {3, 4}
    /\ KindAt(2) = AAA_VECTOR
    /\ RunVecAs([op |-> "vec_push", value |-> NULL, vec |-> VecOperand(2),
                 before |-> IF VecOperand(2) = NULL THEN <<>>
                            ELSE ElementsOf(variables, vectors, VecOperand(2)),
                 pushed |-> IF KindAt(1) = "none" THEN <<"garbage">>
                            ELSE <<KindAt(1), variables[stack[Len(stack)]].payload>>],
                aaa_stack_vec_push)

VecPopTop ==
    /\ status = "running"
    /\ ~VecInLoop
    /\ Len(stack) = 2
    /\ RunVec("vec_pop", aaa_stack_vec_pop)

VecGetAt ==
    /\ status = "running"
    /\ ~VecInLoop
    /\ Len(stack) = 3
    /\ RunVec("vec_get", aaa_stack_vec_get)

\* last.offset is the int operand that aaa_stack_vec_set converts to size_t
VecSetAt ==
    /\ status = "running"
    /\ ~VecInLoop
    /\ Len(stack) = 4
    /\ KindAt(2) = AAA_INTEGER
    /\ RunVecAs([op |-> "vec_set", value |-> NULL,
                 offset |-> variables[stack[3]].payload],
                aaa_stack_vec_set)

VecSizeOf ==
    /\ status = "running"
    /\ ~VecInLoop
    /\ Len(stack) = 2
    /\ RunVec("vec_size", aaa_stack_vec_size)

VecClearAll ==
    /\ status = "running"
    /\ ~VecInLoop
    /\ Len(stack) = 2
    /\ RunVec("vec_clear", aaa_stack_vec_clear)

\* The program takes the vector off the stack and pushes an iterator over it
VecIterNew ==
    /\ status = "running"
    /\ ~VecInLoop
    /\ ElemPlace
    /\ RunVec("vec_iter_new", LAMBDA m :
          LET vec == PoppedPayload(m)
          IN  Bind([m1 \in {aaa_stack_pop_vec(m)} |->
              IF ~Running(m1) THEN m1
              ELSE Bind([m2 \in {aaa_vector_iter_new(m1, vec)} |->
                   Bind([m3 \in {aaa_variable_new_vector_iter(m2, NewVectorIter(m2))} |->
                   Bind([m4 \in {aaa_stack_push(m3, NewVariable(m3))} |->
                   aaa_vector_dec_ref(m4, vec)])])])]))

\* the items that the calls of a loop have handed out so far, this call
\* included
YieldedItems(iter) ==
    (IF last.op = "vec_iter_next" THEN last.yielded ELSE <<>>)
        \o (IF aaa_vector_iter_next_result(Machine("fault"), iter)
            THEN <<aaa_vector_iter_next_item(Machine("fault"), iter)>>
            ELSE <<>>)

\* The program calls aaa_vector_iter_next(iter, &item) on the iterator on top
\* of the stack, in a loop that starts with a new iterator; last.value is
\* what the call returns
VecIterNext ==
    /\ status = "running"
    /\ KindAt(1) = AAA_VECTOR_ITER
    /\ last.op \in {"vec_iter_new", "vec_iter_next"}
    /\ LET iter == PoppedPayload(Machine("fault"))
       IN  RunVecAs([op |-> "vec_iter_next",
                     value |-> aaa_vector_iter_next_result(Machine("fault"), iter),
                     yielded |-> YieldedItems(iter)],
                    LAMBDA m :
              Bind([m1 \in {aaa_vector_iter_next(m, iter, m.locals.item)} |->
              IF ~Running(m1) THEN m1
              ELSE [m1 EXCEPT
                      !.locals.item = aaa_vector_iter_next_item(m, iter)]]))

(***************************************************************************)
(* The programs that copy a vector: they push Integers and empty vectors   *)
(* on a vector, copy it, and run vec_push, vec_pop, vec_set and            *)
(* vec_clear on the vector on top of the stack, which swap makes the       *)
(* original or the copy.  A program ends with the first of these opcodes   *)
(* that it runs after the copy.                                            *)
(***************************************************************************)
CopyInts == {0, 1}

WithinCopyBounds(m) ==
    /\ Len(m.stack) <= CopyDepth
    /\ LiveCount(m.vectors) <= MaxCopyVecs
    /\ {vec \in 1..Len(m.vectors) : m.vectors[vec].size > MaxCopyElems} = {}
    /\ LiveCount(m.variables) <= CopyDepth + (2 * MaxCopyElems)
    /\ {v \in 1..Len(m.variables) : m.variables[v].ref_count > MaxVecRefs} = {}

RunCopyAs(call, op(_)) ==
    \E faulted \in {op(Machine("fault"))} :
        \/ /\ WithinCopyBounds(faulted)
           /\ CommitTo(call, faulted)
        \/ /\ faulted.status = "fault"
           /\ \E carried \in {op(Machine("carry_on"))} :
                 /\ WithinCopyBounds(carried)
                 /\ CommitTo(call, carried)

RunCopy(name, op(_)) == RunCopyAs([op |-> name, value |-> NULL], op)

\* the stack holds the one or two vectors of the program and nothing else
AtRest ==
    /\ Len(stack) \in {1, 2}
    /\ \A d \in 1..Len(stack) : KindAt(d) = AAA_VECTOR

\* the stack holds them and a second reference to the one on top
Working == Len(stack) \in {2, 3} /\ KindAt(1) = AAA_VECTOR /\ KindAt(2) = AAA_VECTOR
              /\ stack[Len(stack)] = stack[Len(stack) - 1]

\* the working reference has been given an element or an offset
Given ==
    /\ Len(stack) >= 3
    /\ KindAt(2) = AAA_VECTOR
    /\ stack[Len(stack) - 1] = stack[Len(stack) - 2]

CopyPushVecEmpty ==
    /\ status = "running"
    /\ stack = <<>>
    /\ RunCopy("push_vec_empty", aaa_stack_push_vec_empty)

CopyDup ==
    /\ status = "running"
    /\ AtRest
    /\ Len(stack) = 2 => last.op \in {"vec_copy", "swap"}
    /\ RunCopy("dup", aaa_stack_dup)

CopySwap ==
    /\ status = "running"
    /\ AtRest
    /\ Len(stack) = 2
    /\ last.op = "vec_copy"
    /\ RunCopy("swap", aaa_stack_swap)

\* an element or an offset on the working reference, a value on an offset
CopyPushInt ==
    /\ status = "running"
    /\ Working \/ (Len(stack) = 4 /\ KindAt(1) = AAA_INTEGER /\ Given)
    /\ \E value \in CopyInts :
          RunCopy("push_int", LAMBDA m : aaa_stack_push_int(m, value))

\* an empty vector as an element of the one vector of the program
CopyPushInner ==
    /\ status = "running"
    /\ Working
    /\ Len(stack) = 2
    /\ RunCopy("push_vec_empty", aaa_stack_push_vec_empty)

CopyVecPush ==
    /\ status = "running"
    /\ Len(stack) \in {3, 4}
    /\ Given
    /\ RunCopy("vec_push", aaa_stack_vec_push)

CopyVecPop ==
    /\ status = "running"
    /\ Working
    /\ Len(stack) = 3
    /\ RunCopy("vec_pop", aaa_stack_vec_pop)

CopyVecSet ==
    /\ status = "running"
    /\ Len(stack) = 5
    /\ KindAt(3) = AAA_VECTOR
    /\ KindAt(2) = AAA_INTEGER
    /\ RunCopy("vec_set", aaa_stack_vec_set)

CopyVecClear ==
    /\ status = "running"
    /\ Working
    /\ Len(stack) = 3
    /\ RunCopy("vec_clear", aaa_stack_vec_clear)

\* the copy comes on top of the one vector of the program
CopyVecCopy ==
    /\ status = "running"
    /\ Working
    /\ Len(stack) = 2
    /\ RunCopy("vec_copy", aaa_stack_vec_copy)

(***************************************************************************)
(* The programs that work on one struct: they create fields with           *)
(* aaa_struct_create_field, as the code that makes a struct does, and read *)
(* and write them with field_query and field_update.                       *)
(***************************************************************************)
FieldNames == {<<97>>, <<98>>}
FieldInts == {0, 1}

WithinStructBounds(m) ==
    /\ Len(m.stack) <= StructDepth
    /\ LiveCount(m.structs) <= 1
    /\ LiveCount(m.variables) <= StructDepth + (2 * MaxFields)
    /\ {v \in 1..Len(m.variables) : m.variables[v].ref_count > MaxVecRefs} = {}

RunStructAs(call, op(_)) ==
    \E faulted \in {op(Machine("fault"))} :
        \/ /\ WithinStructBounds(faulted)
           /\ CommitTo(call, faulted)
        \/ /\ faulted.status = "fault"
           /\ \E carried \in {op(Machine("carry_on"))} :
                 /\ WithinStructBounds(carried)
                 /\ CommitTo(call, carried)

RunStruct(name, op(_)) == RunStructAs([op |-> name, value |-> NULL], op)

\* the struct at depth d of the stack and the names of its fields
StructAt(d) == variables[stack[Len(stack) + 1 - d]].payload

FieldsIn(ms, vs, ss, xs, s) ==
    {ss[vs[Flatten(ms[xs[s].map].buckets)[i].key].payload].raw :
        i \in 1..Len(Flatten(ms[xs[s].map].buckets))}

Fields(s) == FieldsIn(maps, variables, strings, structs, s)

StructPushStruct ==
    /\ status = "running"
    /\ stack = <<>>
    /\ RunStruct("push_struct", LAMBDA m :
          Bind([m1 \in {aaa_struct_new(m, <<115>>)} |->
          aaa_stack_push_struct(m1, NewStruct(m1))]))

\* the call of the code that makes a struct: the value is a new variable,
\* which the caller releases after the call.  last.name is the field,
\* last.given the value and last.fields the fields before the call
StructCreateField ==
    /\ status = "running"
    /\ Len(stack) = 1
    /\ KindAt(1) = AAA_STRUCT
    /\ \E name \in FieldNames, value \in FieldInts :
          RunStructAs([op |-> "create_field", value |-> NULL, name |-> name,
                       given |-> value, fields |-> Fields(StructAt(1))],
              LAMBDA m :
                  Bind([m1 \in {aaa_variable_new_int(m, value)} |->
                  Bind([m2 \in {aaa_struct_create_field(m1, PoppedPayload(m),
                                    name, NewVariable(m1))} |->
                  aaa_variable_dec_ref(m2, NewVariable(m1))])]))

StructDup ==
    /\ status = "running"
    /\ Len(stack) = 1
    /\ KindAt(1) = AAA_STRUCT
    /\ RunStruct("dup", aaa_stack_dup)

StructPushName ==
    /\ status = "running"
    /\ Len(stack) = 2
    /\ KindAt(1) = AAA_STRUCT
    /\ \E name \in FieldNames :
          RunStruct("push_str", LAMBDA m : aaa_stack_push_str_raw(m, name, FALSE))

StructPushValue ==
    /\ status = "running"
    /\ Len(stack) = 3
    /\ KindAt(1) = AAA_STRING
    /\ \E value \in FieldInts :
          RunStruct("push_int", LAMBDA m : aaa_stack_push_int(m, value))

\* last.value is the variable that field_query has pushed
StructFieldQuery ==
    /\ status = "running"
    /\ Len(stack) = 3
    /\ KindAt(1) = AAA_STRING
    /\ \E after \in {aaa_stack_field_query(Machine("fault"))} :
          RunStructAs([op |-> "field_query",
                       value |-> IF Running(after) THEN aaa_stack_top(after)
                                 ELSE NULL,
                       name |-> strings[variables[stack[3]].payload].raw,
                       given |-> NULL, fields |-> Fields(StructAt(2))],
                      aaa_stack_field_query)

StructFieldUpdate ==
    /\ status = "running"
    /\ Len(stack) = 4
    /\ KindAt(1) = AAA_INTEGER
    /\ RunStructAs([op |-> "field_update", value |-> NULL,
                    name |-> strings[variables[stack[3]].payload].raw,
                    given |-> variables[stack[4]].payload,
                    fields |-> Fields(StructAt(3))],
                   aaa_stack_field_update)

\* the program drops the value that field_query has pushed
StructDrop ==
    /\ status = "running"
    /\ Len(stack) = 2
    /\ KindAt(1) # AAA_STRUCT
    /\ RunStruct("drop", aaa_stack_drop)

(***************************************************************************)
(* The programs that work on texts: they split a text on a separator that  *)
(* is not empty, join the fragments with the separator again, and take     *)
(* substrings.  The texts are the ones of up to MaxSplitText bytes "a" and *)
(* "," and the text "a,b,,c".                                              *)
(***************************************************************************)
SplitBytes == {97, 44}
SplitTexts ==
    UNION {[1..n -> SplitBytes] : n \in 0..MaxSplitText}
        \cup {<<97, 44, 98, 44, 44, 99>>}
Separators == {<<44>>, <<44, 44>>, <<97, 44>>}
SubstrInts == (-1)..(MaxSplitText + 1)

WithinTextBounds(m) == Len(m.stack) <= TextDepth

RunTextAs(call, op(_)) ==
    \E faulted \in {op(Machine("fault"))} :
        \/ /\ WithinTextBounds(faulted)
           /\ CommitTo(call, faulted)
        \/ /\ faulted.status = "fault"
           /\ \E carried \in {op(Machine("carry_on"))} :
                 /\ WithinTextBounds(carried)
                 /\ CommitTo(call, carried)

\* the text on the stack at depth d (1 is the top)
RawAt(d) == strings[variables[stack[Len(stack) + 1 - d]].payload].raw

\* the separator that str_join will be given
TextPushGlue ==
    /\ status = "running"
    /\ stack = <<>>
    /\ \E sep \in Separators :
          RunTextAs([op |-> "push_glue", value |-> NULL],
                    LAMBDA m : aaa_stack_push_str_raw(m, sep, FALSE))

TextPushText ==
    /\ status = "running"
    /\ stack = <<>> \/ last.op = "push_glue"
    /\ \E text \in SplitTexts :
          RunTextAs([op |-> "push_text", value |-> NULL],
                    LAMBDA m : aaa_stack_push_str_raw(m, text, FALSE))

TextPushSep ==
    /\ status = "running"
    /\ last.op = "push_text"
    /\ \E sep \in Separators :
          /\ Len(stack) = 2 => sep = RawAt(2)
          /\ RunTextAs([op |-> "push_sep", value |-> NULL],
                       LAMBDA m : aaa_stack_push_str_raw(m, sep, FALSE))

\* last.text and last.sep are the operands of str_split
TextSplit ==
    /\ status = "running"
    /\ last.op = "push_sep"
    /\ RunTextAs([op |-> "str_split", value |-> NULL, text |-> RawAt(2),
                  sep |-> RawAt(1)], aaa_stack_str_split)

\* last.text is the text that was split and last.sep the separator
TextJoin ==
    /\ status = "running"
    /\ last.op = "str_split"
    /\ Len(stack) = 2
    /\ RunTextAs([op |-> "str_join", value |-> NULL, text |-> last.text,
                  sep |-> last.sep], aaa_stack_str_join)

TextPushStart ==
    /\ status = "running"
    /\ last.op = "push_text"
    /\ Len(stack) = 1
    /\ \E start \in SubstrInts :
          RunTextAs([op |-> "push_start", value |-> NULL],
                    LAMBDA m : aaa_stack_push_int(m, start))

TextPushEnd ==
    /\ status = "running"
    /\ last.op = "push_start"
    /\ \E end \in SubstrInts :
          RunTextAs([op |-> "push_end", value |-> NULL],
                    LAMBDA m : aaa_stack_push_int(m, end))

\* last.text, last.start and last.end are the operands of str_substr
TextSubstr ==
    /\ status = "running"
    /\ last.op = "push_end"
    /\ RunTextAs([op |-> "str_substr", value |-> NULL, text |-> RawAt(3),
                  start |-> variables[stack[2]].payload,
                  end |-> variables[stack[3]].payload], aaa_stack_str_substr)

(***************************************************************************)
(* The programs that convert a text to an integer: the texts of up to      *)
(* MaxParseText bytes out of a space, the two signs, a digit and a letter, *)
(* and the texts around the ends of int: "2147483647", "2147483648",       *)
(* "-2147483648", "-2147483649", and "007", a tab before "5", "5" before a *)
(* line feed.                                                              *)
(***************************************************************************)
ParseBytes == {32, 43, 45, 53, 97}
ParseTexts ==
    UNION {[1..n -> ParseBytes] : n \in 0..MaxParseText}
        \cup {IntMaxDigits, IntMinDigits, <<45>> \o IntMinDigits,
              <<45, 50, 49, 52, 55, 52, 56, 51, 54, 52, 57>>,
              <<48, 48, 55>>, <<9, 53>>, <<53, 10>>}

ParsePushText ==
    /\ status = "running"
    /\ stack = <<>>
    /\ \E text \in ParseTexts :
          RunTextAs([op |-> "push_text", value |-> NULL],
                    LAMBDA m : aaa_stack_push_str_raw(m, text, FALSE))

\* last.text is the operand of str_to_int
ParseToInt ==
    /\ status = "running"
    /\ last.op = "push_text"
    /\ Len(stack) = 1
    /\ RunTextAs([op |-> "str_to_int", value |-> NULL, text |-> RawAt(1)],
                 aaa_stack_str_to_int)

\* the program drops what is on top of the stack
ParseDrop ==
    /\ status = "running"
    /\ last.op \in {"str_to_int", "drop"}
    /\ stack # <<>>
    /\ RunTextAs([op |-> "drop", value |-> NULL], aaa_stack_drop)

(***************************************************************************)
(* The programs that take the repr of one value: a text of up to           *)
(* MaxQuoteText bytes out of the ten bytes that aaa_variable_repr_str      *)
(* escapes and the letters "a" and "n", a struct, an integer or a boolean. *)
(***************************************************************************)
QuoteBytes == {7, 8, 9, 10, 11, 12, 13, 34, 39, 92, 97, 110}
QuoteTexts == UNION {[1..n -> QuoteBytes] : n \in 0..MaxQuoteText}

QuotePushText ==
    /\ status = "running"
    /\ stack = <<>>
    /\ \E text \in QuoteTexts :
          RunTextAs([op |-> "push_text", value |-> NULL],
                    LAMBDA m : aaa_stack_push_str_raw(m, text, FALSE))

\* a struct without fields, an integer or a boolean
QuotePushStruct ==
    /\ status = "running"
    /\ stack = <<>>
    /\ RunTextAs([op |-> "push_struct", value |-> NULL], LAMBDA m :
          Bind([m1 \in {aaa_struct_new(m, <<115>>)} |->
          aaa_stack_push_struct(m1, NewStruct(m1))]))

QuotePushInt ==
    /\ status = "running"
    /\ stack = <<>>
    /\ \E value \in {INT_MIN, -1, 0, 7, INT_MAX} :
          RunTextAs([op |-> "push_int", value |-> NULL],
                    LAMBDA m : aaa_stack_push_int(m, value))

QuotePushBool ==
    /\ status = "running"
    /\ stack = <<>>
    /\ \E value \in BOOLEAN :
          RunTextAs([op |-> "push_bool", value |-> NULL],
                    LAMBDA m : aaa_stack_push_bool(m, value))

\* last.kind is the kind of the operand of repr and last.text its bytes, if
\* it is a text
QuoteRepr ==
    /\ status = "running"
    /\ last.op # "repr"
    /\ Len(stack) = 1
    /\ RunTextAs([op |-> "repr", value |-> NULL, kind |-> KindAt(1),
                  text |-> IF KindAt(1) = AAA_STRING THEN RawAt(1) ELSE <<>>],
                 aaa_stack_repr)

(***************************************************************************)
(* The programs that call the system: they push a file descriptor or a     *)
(* process id, a text and a port or an option, and run write, connect,     *)
(* fsync or waitpid, whose system call returns any of its results.         *)
(* last.succeeded tells whether the call has succeeded, last.before is the *)
(* stack before the opcode and last.operand the text it pops, if any.      *)
(***************************************************************************)
IoInts == {-1, 0, 3, 80, 65536}
IoTexts == {<<>>, <<104>>}
\* what fsync and connect return
SysResults == {0, -1}

IoPushInt ==
    /\ status = "running"
    /\ Len(stack) < TextDepth
    /\ last.op \in {"init", "push_int", "push_text"}
    /\ \E value \in IoInts :
          RunTextAs([op |-> "push_int", value |-> NULL],
                    LAMBDA m : aaa_stack_push_int(m, value))

IoPushText ==
    /\ status = "running"
    /\ Len(stack) = 1
    /\ last.op = "push_int"
    /\ \E text \in IoTexts :
          RunTextAs([op |-> "push_text", value |-> NULL],
                    LAMBDA m : aaa_stack_push_str_raw(m, text, FALSE))

IoWrite ==
    /\ status = "running"
    /\ Len(stack) = 2
    /\ last.op = "push_text"
    /\ \E written \in (-1)..Len(RawAt(1)) :
          RunTextAs([op |-> "write", value |-> NULL, before |-> stack,
                     operand |-> variables[stack[2]].payload,
                     succeeded |-> written >= 0],
                    LAMBDA m : aaa_stack_write(m, written))

\* getaddrinfo returns 0 or an error such as EAI_NONAME, which is -2
IoConnect ==
    /\ status = "running"
    /\ Len(stack) = 3
    /\ KindAt(2) = AAA_STRING
    /\ last.op = "push_int"
    /\ \E resolved \in {0, -2}, success \in SysResults :
          RunTextAs([op |-> "connect", value |-> NULL, before |-> stack,
                     operand |-> variables[stack[2]].payload,
                     succeeded |-> /\ variables[stack[3]].payload \in 0..65535
                                   /\ resolved = 0
                                   /\ success = 0],
                    LAMBDA m : aaa_stack_connect(m, resolved, success))

IoFsync ==
    /\ status = "running"
    /\ Len(stack) = 1
    /\ last.op = "push_int"
    /\ \E synced \in SysResults :
          RunTextAs([op |-> "fsync", value |-> NULL, before |-> stack,
                     operand |-> NULL, succeeded |-> synced = 0],
                    LAMBDA m : aaa_stack_fsync(m, synced))

\* waitpid returns -1, 0 when no child has changed under WNOHANG, or the
\* process id of a child, here 7
IoWaitpid ==
    /\ status = "running"
    /\ Len(stack) = 2
    /\ KindAt(1) = AAA_INTEGER
    /\ last.op = "push_int"
    /\ \E changed_pid \in {-1, 0, 7} :
          RunTextAs([op |-> "waitpid", value |-> NULL, before |-> stack,
                     operand |-> NULL, succeeded |-> changed_pid > 0],
                    LAMBDA m : aaa_stack_waitpid(m, changed_pid))

(***************************************************************************)
(* The programs that compare two vectors: they build two vectors of up to  *)
(* MaxElems Integers on the stack, call aaa_vector_equals on them as       *)
(* aaa_variable_equals does, and drop the vectors.  last.value is the      *)
(* value the call returns.                                                 *)
(***************************************************************************)
EqualsInts == {0, 1}

EqPushVec ==
    /\ status = "running"
    /\ Len(stack) < 2
    /\ last.op \in {"init", "push_vec_empty", "vec_push"}
    /\ RunVec("push_vec_empty", aaa_stack_push_vec_empty)

EqDup ==
    /\ status = "running"
    /\ last.op \in {"push_vec_empty", "vec_push"}
    /\ RunVec("dup", aaa_stack_dup)

EqPushInt ==
    /\ status = "running"
    /\ last.op = "dup"
    /\ \E value \in EqualsInts :
          RunVec("push_int", LAMBDA m : aaa_stack_push_int(m, value))

EqVecPush ==
    /\ status = "running"
    /\ last.op = "push_int"
    /\ RunVec("vec_push", aaa_stack_vec_push)

EqEquals ==
    /\ status = "running"
    /\ Len(stack) = 2
    /\ last.op \in {"push_vec_empty", "vec_push"}
    /\ \E lhs \in {variables[stack[1]].payload},
          rhs \in {variables[stack[2]].payload} :
          RunVecAs([op |-> "vector_equals",
                    value |-> aaa_vector_equals_result(Machine("fault"),
                                                       lhs, rhs)],
                   LAMBDA m : aaa_vector_equals(m, lhs, rhs))

EqDrop ==
    /\ status = "running"
    /\ last.op \in {"vector_equals", "drop"}
    /\ stack # <<>>
    /\ RunVec("drop", aaa_stack_drop)

(***************************************************************************)
(* The programs that replace a text in a text: the texts and the           *)
(* separators of the programs that split, and a replacement that is empty, *)
(* "x" or ",".  last.text, last.search and last.replace are the operands   *)
(* of str_replace.                                                         *)
(***************************************************************************)
Replacements == {<<>>, <<120>>, <<44>>}

ReplacePushText ==
    /\ status = "running"
    /\ stack = <<>>
    /\ \E text \in SplitTexts :
          RunTextAs([op |-> "push_text", value |-> NULL],
                    LAMBDA m : aaa_stack_push_str_raw(m, text, FALSE))

ReplacePushSearch ==
    /\ status = "running"
    /\ last.op = "push_text"
    /\ \E search \in Separators :
          RunTextAs([op |-> "push_search", value |-> NULL],
                    LAMBDA m : aaa_stack_push_str_raw(m, search, FALSE))

ReplacePushReplace ==
    /\ status = "running"
    /\ last.op = "push_search"
    /\ \E replace \in Replacements :
          RunTextAs([op |-> "push_replace", value |-> NULL],
                    LAMBDA m : aaa_stack_push_str_raw(m, replace, FALSE))

ReplaceRun ==
    /\ status = "running"
    /\ last.op = "push_replace"
    /\ RunTextAs([op |-> "str_replace", value |-> NULL, text |-> RawAt(3),
                  search |-> RawAt(2), replace |-> RawAt(1)],
                 aaa_stack_str_replace)

(***************************************************************************)
(* The programs that search a text from an offset on: the texts and the    *)
(* separators of the programs that split, and the offsets from -1 to one   *)
(* beyond the longest of the short texts.  last.text, last.search and      *)
(* last.start are the operands of str_find_after.                          *)
(***************************************************************************)
FindPushText ==
    /\ status = "running"
    /\ stack = <<>>
    /\ \E text \in SplitTexts :
          RunTextAs([op |-> "push_text", value |-> NULL],
                    LAMBDA m : aaa_stack_push_str_raw(m, text, FALSE))

FindPushSearch ==
    /\ status = "running"
    /\ last.op = "push_text"
    /\ \E search \in Separators :
          RunTextAs([op |-> "push_search", value |-> NULL],
                    LAMBDA m : aaa_stack_push_str_raw(m, search, FALSE))

FindPushStart ==
    /\ status = "running"
    /\ last.op = "push_search"
    /\ \E start \in SubstrInts :
          RunTextAs([op |-> "push_start", value |-> NULL],
                    LAMBDA m : aaa_stack_push_int(m, start))

\* what strstr finds outside of the text is any of its results
FindAfter ==
    /\ status = "running"
    /\ last.op = "push_start"
    /\ \E found_beyond \in BOOLEAN :
          RunTextAs([op |-> "str_find_after", value |-> NULL,
                     text |-> RawAt(3), search |-> RawAt(2),
                     start |-> variables[stack[3]].payload],
                    LAMBDA m : aaa_stack_str_find_after(m, found_beyond))

(***************************************************************************)
(* The programs that run on both runtimes: every opcode is applied to the  *)
(* stack of src/c and to the stack of the legacy runtime, when the stack   *)
(* holds the operands of the opcode.                                       *)
(***************************************************************************)
LegacyInts == {0, 1}

\* what a slot that was never written may hold
LegacyGarbage ==
    {[kind |-> AAA_INTEGER, payload |-> 7], [kind |-> AAA_BOOLEAN, payload |-> 0]}

RunBoth(name, op(_), lg) ==
    \E m \in {op(Machine("fault"))} :
        /\ WithinBounds(m)
        /\ lg.size <= MaxDepth
        /\ CommitRuntime([op |-> name, value |-> NULL], m)
        /\ legacy' = lg

BothPushInt ==
    /\ status = "running" /\ legacy.status = "running"
    /\ \E value \in LegacyInts :
          RunBoth("push_int", LAMBDA m : aaa_stack_push_int(m, value),
                  legacy_aaa_stack_push_int(legacy, value))

BothPushBool ==
    /\ status = "running" /\ legacy.status = "running"
    /\ \E value \in BOOLEAN :
          RunBoth("push_bool", LAMBDA m : aaa_stack_push_bool(m, value),
                  legacy_aaa_stack_push_bool(legacy, value))

BothDup ==
    /\ status = "running" /\ legacy.status = "running"
    /\ Len(stack) >= 1 /\ legacy.size >= 1
    /\ \E garbage \in LegacyGarbage :
          RunBoth("dup", aaa_stack_dup, legacy_aaa_stack_dup(legacy, garbage))

BothSwap ==
    /\ status = "running" /\ legacy.status = "running"
    /\ Len(stack) >= 2 /\ legacy.size >= 2
    /\ \E garbage \in LegacyGarbage :
          RunBoth("swap", aaa_stack_swap,
                  legacy_aaa_stack_swap(legacy, garbage))

BothOver ==
    /\ status = "running" /\ legacy.status = "running"
    /\ Len(stack) >= 2 /\ legacy.size >= 2
    /\ \E garbage \in LegacyGarbage :
          RunBoth("over", aaa_stack_over,
                  legacy_aaa_stack_over(legacy, garbage))

BothRot ==
    /\ status = "running" /\ legacy.status = "running"
    /\ Len(stack) >= 3 /\ legacy.size >= 3
    /\ \E garbage \in LegacyGarbage :
          RunBoth("rot", aaa_stack_rot, legacy_aaa_stack_rot(legacy, garbage))

BothDrop ==
    /\ status = "running" /\ legacy.status = "running"
    /\ Len(stack) >= 1 /\ legacy.size >= 1
    /\ RunBoth("drop", aaa_stack_drop, legacy_aaa_stack_drop(legacy))

(***************************************************************************)
(* The programs that run str_split iteration by iteration, on the empty    *)
(* separator too.  locals holds string, sep, vector and start of           *)
(* aaa_string_split while the loop runs.  A loop that moves start forward  *)
(* pushes at most one fragment per byte of the text; MaxFragments is above *)
(* the length of every text, so it only ends the loops that stand still.   *)
(***************************************************************************)
WithinSplitBounds(m) ==
    /\ Len(m.stack) <= TextDepth
    /\ {vec \in 1..Len(m.vectors) : m.vectors[vec].size > MaxFragments} = {}

RunSplitAs(call, op(_)) ==
    \E faulted \in {op(Machine("fault"))} :
        \/ /\ WithinSplitBounds(faulted)
           /\ CommitTo(call, faulted)
        \/ /\ faulted.status = "fault"
           /\ \E carried \in {op(Machine("carry_on"))} :
                 /\ WithinSplitBounds(carried)
                 /\ CommitTo(call, carried)

InSplit == locals.vector # NULL

SplitPushText ==
    /\ status = "running"
    /\ last.op = "init"
    /\ \E text \in SplitTexts :
          RunSplitAs([op |-> "push_text", value |-> NULL],
                     LAMBDA m : aaa_stack_push_str_raw(m, text, FALSE))

SplitPushSep ==
    /\ status = "running"
    /\ last.op = "push_text"
    /\ \E sep \in Separators \cup {<<>>} :
          RunSplitAs([op |-> "push_sep", value |-> NULL],
                     LAMBDA m : aaa_stack_push_str_raw(m, sep, FALSE))

\* aaa_stack_str_split up to the loop of aaa_string_split
SplitEnter ==
    /\ status = "running"
    /\ last.op = "push_sep"
    /\ RunSplitAs([op |-> "split_enter", value |-> NULL],
          LAMBDA m :
              LET sep == PoppedPayload(m)
              IN  Bind([m1 \in {aaa_stack_pop_str(m)} |->
                  LET string == PoppedPayload(m1)
                  IN  Bind([m2 \in {aaa_stack_pop_str(m1)} |->
                      Bind([m3 \in {aaa_vector_new(m2)} |->
                      IF ~Running(m3) THEN m3
                          ELSE [m3 EXCEPT !.locals.string = string,
                                          !.locals.sep = sep,
                                          !.locals.vector = NewVector(m3),
                                          !.locals.start = 0]])])]))

\* one iteration of the loop; last.from is start before it
SplitIterate ==
    /\ status = "running"
    /\ InSplit
    /\ locals.start < strings[locals.string].length
    /\ RunSplitAs([op |-> "split_iterate", value |-> NULL,
                   from |-> locals.start],
          LAMBDA m :
              Bind([m1 \in {SplitBody(m, m.locals.string, m.locals.sep,
                                      m.locals.vector, m.locals.start)} |->
              IF ~Running(m1) THEN m1
                  ELSE [m1 EXCEPT !.locals.start =
                          SplitStart(m, m.locals.string, m.locals.sep,
                                     m.locals.start)]]))

\* the loop has ended: aaa_string_split returns and aaa_stack_str_split
\* pushes the vector and releases the two texts
SplitReturn ==
    /\ status = "running"
    /\ InSplit
    /\ ~(locals.start < strings[locals.string].length)
    /\ RunSplitAs([op |-> "str_split", value |-> NULL],
          LAMBDA m :
              Bind([m1 \in {aaa_stack_push_vec(m, m.locals.vector)} |->
              Bind([m2 \in {aaa_string_dec_ref(m1, m.locals.sep)} |->
              Bind([m3 \in {aaa_string_dec_ref(m2, m.locals.string)} |->
              IF ~Running(m3) THEN m3
                  ELSE [m3 EXCEPT !.locals = NoLocals]])])]))

(***************************************************************************)
(* The programs that fill one vector: they push the Integers 0, 1, 2, ...  *)
(* in this order, so that the element at offset i is i, read the elements  *)
(* and pop them.                                                           *)
(***************************************************************************)
WithinFillBounds(m) ==
    /\ Len(m.stack) <= VecDepth
    /\ LiveCount(m.vectors) <= 1
    /\ {vec \in 1..Len(m.vectors) : m.vectors[vec].size > MaxFillElems} = {}
    /\ {v \in 1..Len(m.variables) : m.variables[v].ref_count > MaxVecRefs} = {}

RunFillAs(call, op(_)) ==
    \E faulted \in {op(Machine("fault"))} :
        \/ /\ WithinFillBounds(faulted)
           /\ CommitTo(call, faulted)
        \/ /\ faulted.status = "fault"
           /\ \E carried \in {op(Machine("carry_on"))} :
                 /\ WithinFillBounds(carried)
                 /\ CommitTo(call, carried)

RunFill(name, op(_)) == RunFillAs([op |-> name, value |-> NULL], op)

FillPushVecEmpty ==
    /\ status = "running"
    /\ stack = <<>>
    /\ RunFill("push_vec_empty", aaa_stack_push_vec_empty)

FillDup ==
    /\ status = "running"
    /\ Len(stack) = 1
    /\ RunFill("dup", aaa_stack_dup)

\* the next element, or the offset of one that the vector holds
FillPushInt ==
    /\ status = "running"
    /\ Len(stack) = 2
    /\ ElemPlace
    /\ \E value \in 0..vectors[VecOperand(1)].size :
          RunFill("push_int", LAMBDA m : aaa_stack_push_int(m, value))

FillDrop ==
    /\ status = "running"
    /\ last.op # "vec_get"
    /\ RunFill("drop", aaa_stack_drop)

FillVecPush ==
    /\ status = "running"
    /\ Len(stack) = 3
    /\ KindAt(2) = AAA_VECTOR
    /\ KindAt(1) = AAA_INTEGER
    /\ variables[stack[3]].payload = vectors[VecOperand(2)].size
    /\ RunFillAs([op |-> "vec_push", value |-> NULL, vec |-> VecOperand(2),
                  before |-> ElementsOf(variables, vectors, VecOperand(2)),
                  pushed |-> <<KindAt(1), variables[stack[3]].payload>>],
                 aaa_stack_vec_push)

FillVecGet ==
    /\ status = "running"
    /\ Len(stack) = 3
    /\ RunFill("vec_get", aaa_stack_vec_get)

FillVecPop ==
    /\ status = "running"
    /\ Len(stack) = 2
    /\ RunFill("vec_pop", aaa_stack_vec_pop)

\* aaa_stack_init and an empty heap
Init ==
    /\ stack = <<>>
    /\ variables = <<>>
    /\ strings = <<>>
    /\ vectors = <<>>
    /\ maps = <<>>
    /\ structs = <<>>
    /\ vector_iters = <<>>
    /\ map_iters = <<>>
    /\ buffers = <<>>
    /\ locals = NoLocals
    /\ status = "running"
    /\ flags = {}
    /\ last = [op |-> "init", value |-> NULL]
    /\ legacy = legacy_aaa_stack_init

\* The stack manipulation opcodes over Integer and Text values
Next ==
    \/ PushInt
    \/ PushStr
    \/ Dup
    \/ Swap
    \/ Over
    \/ Rot
    \/ Drop

Spec == Init /\ [][Next]_vars

\* The opcodes that create, share and release the holders of a variable
NextHeap ==
    \/ PushZero
    \/ PushTrue
    \/ PushLiteral
    \/ PushVecEmpty
    \/ PushMapEmpty
    \/ Dup
    \/ Over
    \/ Drop
    \/ VecPush
    \/ VecPop
    \/ VecGet
    \/ VecSet
    \/ MapSet
    \/ MapGet
    \/ MapPop
    \/ MapDrop

SpecHeap == Init /\ [][NextHeap]_vars

\* The opcodes that pop their operands, on stacks that may be too short
NextUnderflow ==
    \/ PushZero
    \/ Dup
    \/ Swap
    \/ Over
    \/ Rot
    \/ Drop
    \/ Plus
    \/ Minus
    \/ Multiply
    \/ Divide
    \/ Modulo

SpecUnderflow == Init /\ [][NextUnderflow]_vars

\* The arithmetic opcodes over the int values
NextArith ==
    \/ PushArith
    \/ Plus
    \/ Minus
    \/ Multiply
    \/ Divide
    \/ Modulo
    \/ Drop

SpecArith == Init /\ [][NextArith]_vars

\* The typed pops over the values of every kind
NextPop ==
    \/ PushZero
    \/ PushBool
    \/ PushStr
    \/ PushVecEmpty
    \/ PushMapEmpty
    \/ PushSet
    \/ PushStruct
    \/ PushVecIter
    \/ PushMapIter
    \/ Dup
    \/ PopInt
    \/ PopBool
    \/ PopStr
    \/ PopVec
    \/ PopMap
    \/ PopStruct

SpecPop == Init /\ [][NextPop]_vars

\* repr and str_join, which build their Text in a buffer
NextRepr ==
    \/ PushInt
    \/ PushBool
    \/ PushText
    \/ PushVecEmpty
    \/ PushMapEmpty
    \/ PushSet
    \/ VecPush
    \/ MapSet
    \/ Repr
    \/ StrJoin
    \/ Drop

SpecRepr == Init /\ [][NextRepr]_vars

\* The opcodes that store, look up and remove the entries of a map, over
\* Integer and Text keys and values
NextMap ==
    \/ MapPushMapEmpty
    \/ MapPushInt
    \/ MapPushStr
    \/ MapDup
    \/ MapDropTop
    \/ MapSetKey
    \/ MapGetKey
    \/ MapHasKey
    \/ MapPopKey
    \/ MapDropKey
    \/ MapSize

SpecMap == Init /\ [][NextMap]_vars

\* A map that takes up to MaxGrowKeys entries
NextGrow ==
    \/ GrowPushMapEmpty
    \/ GrowPushKey
    \/ GrowDup
    \/ GrowDrop
    \/ GrowMapSet
    \/ GrowMapGet

SpecGrow == Init /\ [][NextGrow]_vars

\* The loops over the entries of a map, and the copy of a map
NextIter ==
    \/ MapPushMapEmpty
    \/ MapPushInt
    \/ MapPushStr
    \/ MapDup
    \/ MapDropTop
    \/ MapSetKey
    \/ MapCopy
    \/ MapIterNew
    \/ MapIterNext

SpecIter == Init /\ [][NextIter]_vars

\* The opcodes of a map over keys of every kind but Text
NextKeys ==
    \/ MapPushMapEmpty
    \/ MapPushInt
    \/ MapPushBool
    \/ MapPushSet
    \/ MapPushVecEmpty
    \/ MapPushStruct
    \/ MapDup
    \/ MapIterNew
    \/ MapDropTop
    \/ MapSetKey
    \/ MapGetKey
    \/ MapHasKey
    \/ MapPopKey
    \/ MapDropKey

SpecKeys == Init /\ [][NextKeys]_vars

NextHash ==
    \/ MapPushMapEmpty
    \/ MapDup
    \/ HashPushInt
    \/ HashPushBool
    \/ HashPushStr
    \/ HashCompare
    \/ MapSetKey
    \/ HashMapGet
    \/ MapHasKey

SpecHash == Init /\ [][NextHash]_vars

NextVec ==
    \/ VecPushVecEmpty
    \/ VecPushInt
    \/ VecDup
    \/ VecDupAgain
    \/ VecDropTop
    \/ VecPushTop
    \/ VecPopTop
    \/ VecSizeOf
    \/ VecClearAll

SpecVec == Init /\ [][NextVec]_vars

NextRange ==
    \/ VecPushVecEmpty
    \/ VecPushInt
    \/ VecDup
    \/ VecDropTop
    \/ VecPushTop
    \/ VecPopTop
    \/ VecGetAt
    \/ VecSetAt

SpecRange == Init /\ [][NextRange]_vars

NextFill ==
    \/ FillPushVecEmpty
    \/ FillDup
    \/ FillPushInt
    \/ FillDrop
    \/ FillVecPush
    \/ FillVecGet
    \/ FillVecPop

SpecFill == Init /\ [][NextFill]_vars

NextVecIter ==
    \/ VecPushVecEmpty
    \/ VecPushInt
    \/ VecDup
    \/ VecDropTop
    \/ VecPushTop
    \/ VecIterNew
    \/ VecIterNext

SpecVecIter == Init /\ [][NextVecIter]_vars

NextStruct ==
    \/ StructPushStruct
    \/ StructCreateField
    \/ StructDup
    \/ StructPushName
    \/ StructPushValue
    \/ StructFieldQuery
    \/ StructFieldUpdate
    \/ StructDrop

SpecStruct == Init /\ [][NextStruct]_vars

NextText ==
    \/ TextPushGlue
    \/ TextPushText
    \/ TextPushSep
    \/ TextSplit
    \/ TextJoin
    \/ TextPushStart
    \/ TextPushEnd
    \/ TextSubstr

SpecText == Init /\ [][NextText]_vars

NextParse ==
    \/ ParsePushText
    \/ ParseToInt
    \/ ParseDrop

SpecParse == Init /\ [][NextParse]_vars

NextQuote ==
    \/ QuotePushText
    \/ QuotePushStruct
    \/ QuotePushInt
    \/ QuotePushBool
    \/ QuoteRepr

SpecQuote == Init /\ [][NextQuote]_vars

NextIo ==
    \/ IoPushInt
    \/ IoPushText
    \/ IoWrite
    \/ IoConnect
    \/ IoFsync
    \/ IoWaitpid

SpecIo == Init /\ [][NextIo]_vars

\* The opcodes on a map of Integer and Boolean keys that is cleared between
\* them
NextClear ==
    \/ MapPushMapEmpty
    \/ MapPushInt
    \/ MapPushBool
    \/ MapDup
    \/ MapDropTop
    \/ MapSetKey
    \/ MapGetKey
    \/ MapHasKey
    \/ MapPopKey
    \/ MapClear

SpecClear == Init /\ [][NextClear]_vars

NextEquals ==
    \/ EqPushVec
    \/ EqDup
    \/ EqPushInt
    \/ EqVecPush
    \/ EqEquals
    \/ EqDrop

SpecEquals == Init /\ [][NextEquals]_vars

NextReplace ==
    \/ ReplacePushText
    \/ ReplacePushSearch
    \/ ReplacePushReplace
    \/ ReplaceRun

SpecReplace == Init /\ [][NextReplace]_vars

NextFind ==
    \/ FindPushText
    \/ FindPushSearch
    \/ FindPushStart
    \/ FindAfter

SpecFind == Init /\ [][NextFind]_vars

NextBoth ==
    \/ BothPushInt
    \/ BothPushBool
    \/ BothDup
    \/ BothSwap
    \/ BothOver
    \/ BothRot
    \/ BothDrop

SpecBoth == Init /\ [][NextBoth]_vars

NextSplit ==
    \/ SplitPushText
    \/ SplitPushSep
    \/ SplitEnter
    \/ SplitIterate
    \/ SplitReturn

SpecSplit == Init /\ [][NextSplit]_vars

\* a call that has begun goes on: nothing but the program runs
LiveSplit == SpecSplit /\ WF_vars(NextSplit)

NextCopy ==
    \/ CopyPushVecEmpty
    \/ CopyDup
    \/ CopySwap
    \/ CopyPushInt
    \/ CopyPushInner
    \/ CopyVecPush
    \/ CopyVecPop
    \/ CopyVecSet
    \/ CopyVecClear
    \/ CopyVecCopy

SpecCopy == Init /\ [][NextCopy]_vars

\* A stack that holds all but MaxDepth + 1 of the values it has room for,
\* each an Integer 0 of its own
InitFull ==
    /\ stack = [i \in 1..(StackMaxSize - 1 - MaxDepth) |-> i]
    /\ variables = [i \in 1..(StackMaxSize - 1 - MaxDepth) |->
                       [ref_count |-> aaa_ref_count_init, frees |-> 0,
                        kind |-> AAA_INTEGER, payload |-> 0]]
    /\ strings = <<>>
    /\ vectors = <<>>
    /\ maps = <<>>
    /\ structs = <<>>
    /\ vector_iters = <<>>
    /\ map_iters = <<>>
    /\ buffers = <<>>
    /\ locals = NoLocals
    /\ status = "running"
    /\ flags = {}
    /\ last = [op |-> "init", value |-> NULL]
    /\ legacy = legacy_aaa_stack_init

\* The pushes and the opcodes that push, near the capacity of the stack
NextFull ==
    \/ PushInt
    \/ PushBool
    \/ PushStr
    \/ Dup
    \/ Over
    \/ Drop

SpecFull == InitFull /\ [][NextFull]_vars

(***************************************************************************)
(* What the stack and the heap hold                                        *)
(***************************************************************************)
Count(seq, x) == Cardinality({i \in 1..Len(seq) : seq[i] = x})

RECURSIVE Sum(_)
Sum(seq) == IF seq = <<>> THEN 0 ELSE Head(seq) + Sum(Tail(seq))

LiveItems(map) ==
    Flatten([b \in 1..Len(map.buckets) |->
        ItemHolds(SelectSeq(map.buckets[b], LAMBDA item : ~item.freed))])

\* the stack slots, vector elements and map keys and values that point at v
Holders(v) ==
    Count(stack, v)
    + Sum([i \in 1..Len(vectors) |->
              IF Freed(vectors[i]) THEN 0
              ELSE Count(SubSeq(vectors[i].data, 1, vectors[i].size), v)])
    + Sum([i \in 1..Len(maps) |->
              IF Freed(maps[i]) THEN 0 ELSE Count(LiveItems(maps[i]), v)])

Live(v) == v \in 1..Len(variables) /\ ~Freed(variables[v])

\* the value of slot i of the stack: its kind and, of a Text, its bytes
Content(i) ==
    LET v == stack[i]
    IN  IF ~Live(v) THEN <<"garbage">>
        ELSE IF variables[v].kind = AAA_STRING
        THEN <<AAA_STRING, strings[variables[v].payload].raw>>
        ELSE <<variables[v].kind, variables[v].payload>>

Contents == [i \in 1..Len(stack) |-> Content(i)]

Top == stack[Len(stack)]

TopKind == IF stack # <<>> /\ Live(Top) THEN variables[Top].kind ELSE "none"

Did(op) == last'.op = op

(***************************************************************************)
(* C1.  After any sequence of push_int, push_bool, push_str,               *)
(* push_vec_empty, push_map_empty, dup, over, drop, vec_push, vec_pop,     *)
(* vec_get, vec_set, map_set, map_get, map_pop and map_drop, the reference *)
(* count of every live variable is the number of its holders: the stack    *)
(* slots, vector elements and map keys and values that point at it.        *)
(***************************************************************************)
RefCountIsHolders ==
    status = "running" =>
        \A v \in 1..Len(variables) :
            Live(v) => variables[v].ref_count = Holders(v)

\* a variable that vec_set or vec_get left with more references than holders
LeakedVariable ==
    /\ status = "running"
    /\ last.op \in {"vec_set", "vec_get"}
    /\ \E v \in 1..Len(variables) :
          Live(v) /\ variables[v].ref_count > Holders(v)

(***************************************************************************)
(* C2.  dup on a stack whose top is a Text makes the stack one longer and  *)
(* the reference count of the Text one larger.  A drop of one copy while   *)
(* another holds the Text leaves it live with its bytes; the drop of the   *)
(* last copy frees it, once.                                               *)
(***************************************************************************)
TopString == variables[Top].payload

DupDropText ==
    [][TopKind = AAA_STRING =>
        /\ Did("dup") =>
              /\ status' = "running"
              /\ stack' = Append(stack, Top)
              /\ strings'[TopString] =
                    [strings[TopString] EXCEPT !.ref_count = @ + 1]
        /\ Did("drop") =>
              /\ status' = "running"
              /\ flags' = {}
              /\ Len(stack') = Len(stack) - 1
              /\ IF strings[TopString].ref_count > 1
                 THEN strings'[TopString] =
                         [strings[TopString] EXCEPT !.ref_count = @ - 1]
                 ELSE \/ TopString > Len(strings')
                      \/ strings'[TopString] = FreedString]_vars

\* a Text that a dup made shared, and one that the drop of its last copy freed
TextShared ==
    /\ last.op = "dup"
    /\ TopKind = AAA_STRING
    /\ strings[TopString].ref_count = 2
    /\ Count(stack, Top) = 2

(***************************************************************************)
(* C4.  An opcode that runs with fewer values on the stack than it takes   *)
(* (drop and dup on none, swap, over and the arithmetic opcodes on fewer   *)
(* than two, rot on fewer than three) ends in the fatal underflow, and     *)
(* reads no slot below the stack.                                          *)
(***************************************************************************)
Takes(op) ==
    CASE op \in {"dup", "drop"} -> 1
      [] op \in {"swap", "over", "plus", "minus", "multiply", "divide",
                 "modulo"} -> 2
      [] op = "rot" -> 3
      [] OTHER -> 0

TooFewIsUnderflow ==
    [][Len(stack) < Takes(last'.op) =>
          status' = "underflow" /\ "read_below_stack" \notin flags']_vars

\* the fatal underflow of an opcode on a stack that is too short
UnderflowHappened == status = "underflow" /\ last.op = "rot"

(***************************************************************************)
(* C7.  dup turns '.. x' into '.. x x', swap '.. x y' into '.. y x', over  *)
(* '.. x y' into '.. x y x', rot '.. a b c' into '.. b c a' and drop       *)
(* '.. x' into '..'; the slots below are unchanged.                        *)
(***************************************************************************)
Below(s, n) == SubSeq(s, 1, Len(s) - n)

From(s, k) == s[Len(s) + 1 - k]

Rearranged(op, s) ==
    CASE op = "dup" -> Below(s, 1) \o <<From(s, 1), From(s, 1)>>
      [] op = "swap" -> Below(s, 2) \o <<From(s, 1), From(s, 2)>>
      [] op = "over" -> Below(s, 2) \o <<From(s, 2), From(s, 1), From(s, 2)>>
      [] op = "rot" -> Below(s, 3) \o <<From(s, 2), From(s, 1), From(s, 3)>>
      [] op = "drop" -> Below(s, 1)

StackEffects ==
    [][(/\ last'.op \in {"dup", "swap", "over", "rot", "drop"}
        /\ Len(stack) >= Takes(last'.op)) =>
          /\ status' = "running"
          /\ stack' = Rearranged(last'.op, stack)
          /\ Contents' = Rearranged(last'.op, Contents)]_vars

\* rot has moved the third value, different from the two above it, to the top
Rotated ==
    /\ last.op = "rot"
    /\ Len(stack) = 3
    /\ Contents[3] # Contents[1]
    /\ Contents[3] # Contents[2]
    /\ Contents[1] # Contents[2]

(***************************************************************************)
(* C8.  plus, minus and multiply pop two integers and push one: the stack  *)
(* is one shorter, and on top is lhs + rhs, lhs - rhs or lhs * rhs, where  *)
(* rhs was the top and lhs the value below it (3, 4, plus leaves 7).  A    *)
(* result outside of the range of int is a signed overflow.                *)
(***************************************************************************)
IsInt(content) == content[1] = AAA_INTEGER

Lhs == From(Contents, 2)[2]

Rhs == From(Contents, 1)[2]

IntOperands == Len(stack) >= 2 /\ IsInt(From(Contents, 2)) /\ IsInt(From(Contents, 1))

Magnitude(i) == IF i > 0 THEN i ELSE -i

\* whether the exact result of op on a and b is an int
Representable(op, a, b) ==
    CASE op = "plus" ->
            IF b >= 0 THEN a <= INT_MAX - b ELSE a >= INT_MIN - b
      [] op = "minus" ->
            IF b >= 0 THEN a >= INT_MIN + b ELSE a <= INT_MAX + b
      [] op = "multiply" ->
            IF a = 0 \/ b = 0 \/ a = 1 \/ b = 1 THEN TRUE
            ELSE IF a = INT_MIN \/ b = INT_MIN THEN FALSE
            ELSE IF (a > 0) = (b > 0)
            THEN Magnitude(a) <= INT_MAX \div Magnitude(b)
            ELSE Magnitude(a) - 1 <= ((INT_MAX - Magnitude(b)) + 1)
                                        \div Magnitude(b)

Exact(op, a, b) ==
    CASE op = "plus" -> a + b
      [] op = "minus" -> a - b
      [] op = "multiply" -> a * b

ZeroDivisor ==
    [][(last'.op \in {"divide", "modulo"} /\ IntOperands /\ Rhs = 0) =>
          /\ status' = "running"
          /\ flags' = {}
          /\ Below(stack', 2) = Below(stack, 2)
          /\ Contents' = Below(Contents, 2)
                            \o <<<<AAA_INTEGER, 0>>, <<AAA_BOOLEAN, FALSE>>>>]_vars

\* modulo has answered (0, false) above a value that was there before
ZeroDivisorAnswered ==
    /\ last.op = "modulo"
    /\ Len(stack) = 3
    /\ From(Contents, 1) = <<AAA_BOOLEAN, FALSE>>
    /\ From(Contents, 2) = <<AAA_INTEGER, 0>>

(***************************************************************************)
(* C10.  For all int lhs and rhs with rhs # 0, INT_MIN and -1 among them,  *)
(* divide ends in no fault and pushes (q, true) with q the quotient        *)
(* truncated toward zero; modulo pushes (r, true) with lhs = q * rhs + r   *)
(* and |r| < |rhs|.                                                        *)
(***************************************************************************)
\* r is the remainder of a division of lhs by rhs that truncates toward zero
IsRemainder(r, lhs, rhs) ==
    /\ IF rhs > 0 THEN r < rhs /\ -rhs < r ELSE rhs < r /\ rhs < -r
    /\ r = 0 \/ (r > 0) = (lhs > 0)

\* lhs = q * rhs + r for some q
Congruent(r, lhs, rhs) ==
    IF rhs > 0 THEN (lhs - r) % rhs = 0
    ELSE IF rhs = INT_MIN THEN lhs - r \in {0, INT_MIN}
    ELSE (lhs - r) % (-rhs) = 0

DivisionIsTruncated ==
    [][(last'.op \in {"divide", "modulo"} /\ IntOperands /\ Rhs # 0) =>
          /\ status' = "running"
          /\ flags' = {}
          /\ Len(stack') = Len(stack)
          /\ From(Contents', 1) = <<AAA_BOOLEAN, TRUE>>
          /\ IsInt(From(Contents', 2))
          /\ LET pushed == From(Contents', 2)[2]
             IN  IF last'.op = "divide"
                 THEN IsRemainder(Lhs - (pushed * Rhs), Lhs, Rhs)
                 ELSE IsRemainder(pushed, Lhs, Rhs)
                        /\ Congruent(pushed, Lhs, Rhs)]_vars

\* INT_MIN / -1 or INT_MIN % -1 was run: the quotient is no int
QuotientOutOfRange ==
    /\ last.op \in {"divide", "modulo"}
    /\ "division_overflow" \in flags

(***************************************************************************)
(* C3.  Once aaa_buffer_to_string was called on a buffer, no operation     *)
(* (aaa_vector_repr, aaa_map_repr, aaa_set_repr, aaa_string_join, the repr *)
(* of a Text) reads the buffer, appends to it or decrements its reference  *)
(* count again: no reference count is decremented after it reached 0.      *)
(* aaa_buffer_to_string frees the buffer, so such a use is a use of freed  *)
(* memory.                                                                 *)
(***************************************************************************)
BufferLeftAlone == "buffer_use_after_free" \notin flags

\* repr or str_join has used a buffer after its aaa_buffer_to_string
BufferUsedAfterToString ==
    /\ last.op \in {"repr", "str_join"}
    /\ "buffer_use_after_free" \in flags

(***************************************************************************)
(* C5.  A push is a fatal overflow only when it would take the stack       *)
(* beyond its capacity: on a stack of fewer than max_size values it        *)
(* succeeds and the stack is one longer, and the stack never holds more    *)
(* than max_size values.                                                   *)
(***************************************************************************)
PushWithinCapacity ==
    [][last'.op \in {"push_int", "push_bool", "push_str"} =>
          /\ Len(stack') <= StackMaxSize
          /\ IF Len(stack) < StackMaxSize
             THEN status' = "running" /\ Len(stack') = Len(stack) + 1
             ELSE status' = "overflow"]_vars

\* a push has ended in the fatal overflow
PushOverflowed ==
    /\ last.op \in {"push_int", "push_bool", "push_str"}
    /\ status = "overflow"

(***************************************************************************)
(* C6.  A typed pop that expects the kind E, on a stack whose top is of    *)
(* kind K, succeeds and returns the payload of the top if and only if      *)
(* K = E, or K is Set and E is Map; otherwise it ends in the fatal type    *)
(* error.                                                                  *)
(***************************************************************************)
Expected(op) ==
    CASE op = "pop_int" -> AAA_INTEGER
      [] op = "pop_bool" -> AAA_BOOLEAN
      [] op = "pop_str" -> AAA_STRING
      [] op = "pop_vec" -> AAA_VECTOR
      [] op = "pop_map" -> AAA_MAP
      [] op = "pop_struct" -> AAA_STRUCT
      [] OTHER -> "none"

TypedPop ==
    [][(Expected(last'.op) # "none" /\ TopKind # "none") =>
          IF \/ TopKind = Expected(last'.op)
             \/ TopKind = AAA_SET /\ Expected(last'.op) = AAA_MAP
          THEN /\ status' = "running"
               /\ flags' = {}
               /\ stack' = Below(stack, 1)
               /\ last'.value = variables[Top].payload
          ELSE status' = "type_error"]_vars

\* pop_map has returned the map of a Set that is still on the stack
SetPoppedAsMap ==
    /\ last.op = "pop_map"
    /\ status = "running"
    /\ TopKind = AAA_SET
    /\ last.value = variables[Top].payload

(***************************************************************************)
(* What a map holds                                                        *)
(***************************************************************************)
\* the value of variable v in a heap: its kind and, of a Text, its bytes
ValueIn(vs, ss, v) ==
    IF v \notin 1..Len(vs) THEN <<"garbage">>
    ELSE IF Freed(vs[v]) THEN <<"garbage">>
    ELSE IF vs[v].kind = AAA_STRING
    THEN <<AAA_STRING, ss[vs[v].payload].raw>>
    ELSE <<vs[v].kind, vs[v].payload>>

\* the items that the bucket chains of a map reach, bucket by bucket
ChainedIn(ms, map) == Flatten(ms[map].buckets)

\* the entries of a map: the values of the key and of the value of each item
PairsIn(ms, vs, ss, map) ==
    {<<ValueIn(vs, ss, ChainedIn(ms, map)[i].key),
       ValueIn(vs, ss, ChainedIn(ms, map)[i].value)>> :
        i \in 1..Len(ChainedIn(ms, map))}

Pairs(map) == PairsIn(maps, variables, strings, map)

PairsAfter(map) == PairsIn(maps', variables', strings', map)

KeysOf(pairs) == {p[1] : p \in pairs}

Value(v) == ValueIn(variables, strings, v)

\* the variable at depth d of the stack (1 is the top) and what it holds
Arg(d) == From(stack, d)

ArgMap(d) == variables[Arg(d)].payload

IsKey(d) == KindAt(d) \in {AAA_INTEGER, AAA_BOOLEAN, AAA_STRING}

\* the opcode is not run on the last reference to the map
MapStays(d) == variables[Arg(d)].ref_count > 1

(***************************************************************************)
(* C11.  After aaa_map_set(k, v) the map holds the entry (k, v);           *)
(* aaa_map_get(k) returns a value equal to the one stored under k, and     *)
(* aaa_map_has_key answers true for a key that is stored and false for     *)
(* one that is not.                                                        *)
(***************************************************************************)
SetGetHasKey ==
    [][/\ (Did("map_set") /\ IsMapKind(KindAt(3)) /\ IsKey(2) /\ IsKey(1)) =>
              /\ status' = "running"
              /\ MapStays(3) => <<Value(Arg(2)), Value(Arg(1))>> \in PairsAfter(ArgMap(3))
       /\ (Did("map_get") /\ IsMapKind(KindAt(2)) /\ IsKey(1)
             /\ Value(Arg(1)) \in KeysOf(Pairs(ArgMap(2)))) =>
              /\ status' = "running"
              /\ Len(stack') = Len(stack) - 1
              /\ <<Value(Arg(1)), ValueIn(variables', strings', stack'[Len(stack')])>>
                    \in Pairs(ArgMap(2))
       /\ (Did("map_has_key") /\ IsMapKind(KindAt(2)) /\ IsKey(1)) =>
              /\ status' = "running"
              /\ Len(stack') = Len(stack) - 1
              /\ ValueIn(variables', strings', stack'[Len(stack')])
                    = <<AAA_BOOLEAN, Value(Arg(1)) \in KeysOf(Pairs(ArgMap(2)))>>]_vars

\* map_get has pushed the Integer 6 that the map holds under the key "o"
TextKeyLookedUp ==
    /\ last.op = "map_get"
    /\ status = "running"
    /\ Len(stack) = 2
    /\ IsMapKind(KindAt(2))
    /\ Value(Arg(1)) = <<AAA_INTEGER, 6>>
    /\ Pairs(ArgMap(2)) = {<<<<AAA_STRING, <<111>>>>, <<AAA_INTEGER, 6>>>>}

(***************************************************************************)
(* C12.  After any sequence of map_set, map_pop and map_drop on a new map  *)
(* aaa_map_size is the number of distinct keys stored, which is the number *)
(* of entries that the bucket chains reach.                                *)
(***************************************************************************)
LiveMaps == {map \in 1..Len(maps) : ~Freed(maps[map])}

SizeIsEntries ==
    status = "running" =>
        \A map \in LiveMaps :
            /\ aaa_map_size(Machine("fault"), map) = Len(ChainedIn(maps, map))
            /\ aaa_map_size(Machine("fault"), map)
                  = Cardinality(KeysOf(Pairs(map)))

\* map_pop has taken one of the two entries of a map
PoppedOneOfTwo ==
    /\ last.op = "map_pop"
    /\ status = "running"
    /\ \E map \in LiveMaps :
          /\ aaa_map_size(Machine("fault"), map) = 1
          /\ Len(ChainedIn(maps, map)) = 1

(***************************************************************************)
(* C13.  No two entries of a map have equal keys.  aaa_map_set with a key  *)
(* equal to a stored one replaces the value of that entry and releases one *)
(* reference to the old value; the size and the set of keys stay as they   *)
(* were.                                                                   *)
(***************************************************************************)
KeysIn(ms, vs, ss, map) ==
    [i \in 1..Len(ChainedIn(ms, map)) |->
        ValueIn(vs, ss, ChainedIn(ms, map)[i].key)]

DistinctKeys(map) ==
    \A i, j \in 1..Len(ChainedIn(maps, map)) :
        KeysIn(maps, variables, strings, map)[i]
            = KeysIn(maps, variables, strings, map)[j] => i = j

\* the value stored under key, when it is stored
StoredUnder(map, key) ==
    ChainedIn(maps, map)[
        CHOOSE i \in 1..Len(ChainedIn(maps, map)) :
            KeysIn(maps, variables, strings, map)[i] = key].value

EqualKeyReplaces ==
    [][/\ status' = "running" => \A map \in LiveMaps : DistinctKeys(map)
       /\ (Did("map_set") /\ IsMapKind(KindAt(3)) /\ IsKey(2) /\ IsKey(1)
             /\ MapStays(3)
             /\ Value(Arg(2)) \in KeysOf(Pairs(ArgMap(3)))) =>
              /\ status' = "running"
              /\ maps'[ArgMap(3)].size = maps[ArgMap(3)].size
              /\ KeysIn(maps', variables', strings', ArgMap(3))
                    = KeysIn(maps, variables, strings, ArgMap(3))
              /\ <<Value(Arg(2)), Value(Arg(1))>> \in PairsAfter(ArgMap(3))
              \* when the map alone holds the old value and the stack alone
              \* the key and the value, these three are freed and the copy
              \* of the value is the one new variable
              /\ (/\ variables[StoredUnder(ArgMap(3), Value(Arg(2)))].ref_count = 1
                  /\ variables[Arg(1)].ref_count = 1
                  /\ variables[Arg(2)].ref_count = 1) =>
                     LiveCount(variables') = LiveCount(variables) - 2]_vars

\* map_set has replaced the value 6 of the key "o" by "o"
ValueReplaced ==
    /\ last.op = "map_set"
    /\ status = "running"
    /\ last.replaced
    /\ \E map \in LiveMaps :
          <<<<AAA_STRING, <<111>>>>, <<AAA_STRING, <<111>>>>>> \in Pairs(map)

(***************************************************************************)
(* C14.  A new map has 16 buckets.  After every aaa_map_set the load       *)
(* factor size / bucket_count is at most 0.75: the insert that takes it    *)
(* above 0.75 doubles bucket_count, so that a map has 32 buckets after its *)
(* 13th distinct key.                                                      *)
(***************************************************************************)
LoadFactorKept ==
    [][/\ Did("push_map_empty") /\ status' = "running" =>
              maps'[variables'[stack'[Len(stack')]].payload].bucket_count = 16
       /\ (Did("map_set") /\ status' = "running" /\ IsMapKind(KindAt(3))
             /\ MapStays(3)) =>
              \A map \in {ArgMap(3)} :
                  /\ 4 * maps'[map].size <= 3 * maps'[map].bucket_count
                  /\ (~last'.replaced
                        /\ 4 * (maps[map].size + 1) > 3 * maps[map].bucket_count) =>
                        maps'[map].bucket_count = 2 * maps[map].bucket_count]_vars

\* a map of 13 entries in 16 buckets
ThirteenInSixteen ==
    /\ last.op = "map_set"
    /\ status = "running"
    /\ \E map \in LiveMaps :
          maps[map].size = 13 /\ maps[map].bucket_count = 16

(***************************************************************************)
(* C15.  The aaa_map_set that takes the load factor above 0.75 keeps every *)
(* entry: afterwards the map holds the entries it held and the new one,    *)
(* its size has grown by the one new entry only, each item sits in the     *)
(* bucket hash % bucket_count of the bucket_count the map now has, and a   *)
(* lookup with the key of an item returns the value of that item.          *)
(***************************************************************************)
\* the items of every bucket of a map belong there
InOwnBuckets(ms, map) ==
    /\ Len(ms[map].buckets) = ms[map].bucket_count
    /\ \A b \in 1..Len(ms[map].buckets) :
          \A i \in 1..Len(ms[map].buckets[b]) :
              WordMod(ms[map].buckets[b][i].hash, ms[map].bucket_count) + 1 = b

\* map_set stores a new key and the load factor passes 0.75
PastLoadFactor ==
    /\ Did("map_set")
    /\ status' = "running"
    /\ IsMapKind(KindAt(3))
    /\ MapStays(3)
    /\ ~last'.replaced
    /\ LoadFactorAbove(maps[ArgMap(3)].size + 1, maps[ArgMap(3)].bucket_count)

LooksUp(op) == Did(op) /\ IsMapKind(KindAt(2)) /\ IsKey(1)

KeyIsStored == Value(Arg(1)) \in KeysOf(Pairs(ArgMap(2)))

MissingKeyAborts ==
    [][/\ (LooksUp("map_get") /\ ~KeyIsStored) =>
              /\ status' = "abort"
              /\ aaa_stack_map_get(Machine("fault")).stack = Below(stack, 2)
       /\ (LooksUp("map_pop") /\ ~KeyIsStored) =>
              /\ status' = "abort"
              /\ aaa_stack_map_pop(Machine("fault")).stack = Below(stack, 2)
       /\ ((LooksUp("map_get") \/ LooksUp("map_pop")) /\ KeyIsStored) =>
              /\ status' = "running"
              /\ stack' = Below(stack, 2)
                    \o <<StoredUnder(ArgMap(2), Value(Arg(1)))>>
       /\ (LooksUp("map_pop") /\ KeyIsStored /\ MapStays(2)) =>
              \A map \in {ArgMap(2)} :
                  /\ maps'[map].size = maps[map].size - 1
                  /\ Value(Arg(1)) \notin KeysOf(PairsAfter(map))]_vars

\* map_get has ended the program
MissingKeyAborted ==
    /\ last.op = "map_get"
    /\ status = "abort"

(***************************************************************************)
(* C17.  aaa_map_set, aaa_map_get, aaa_map_has_key, aaa_map_pop and        *)
(* aaa_map_drop with a key of kind Vector, Map, Set, Struct or of an       *)
(* iterator kind end in abort, and at the abort the size and the bucket    *)
(* chains of the map are the ones it had; the keys that maps hold are      *)
(* Integers, Booleans and Texts only.                                      *)
(***************************************************************************)
Unhashable ==
    {AAA_VECTOR, AAA_MAP, AAA_SET, AAA_STRUCT,
     AAA_VECTOR_ITER, AAA_MAP_ITER, AAA_SET_ITER}

\* the machine an opcode has ended in has left the map as it is now
Untouched(dead, map) ==
    /\ dead.status = "abort"
    /\ dead.maps[map].size = maps[map].size
    /\ dead.maps[map].bucket_count = maps[map].bucket_count
    /\ dead.maps[map].buckets = maps[map].buckets

BadKey(op, d) == Did(op) /\ IsMapKind(KindAt(d + 1)) /\ KindAt(d) \in Unhashable

UnhashableKeyAborts ==
    [][/\ (BadKey("map_set", 2) /\ KindAt(1) # "none") =>
              /\ status' = "abort"
              /\ Untouched(aaa_stack_map_set(Machine("fault")), ArgMap(3))
       /\ BadKey("map_get", 1) =>
              /\ status' = "abort"
              /\ Untouched(aaa_stack_map_get(Machine("fault")), ArgMap(2))
       /\ BadKey("map_has_key", 1) =>
              /\ status' = "abort"
              /\ Untouched(aaa_stack_map_has_key(Machine("fault")), ArgMap(2))
       /\ BadKey("map_pop", 1) =>
              /\ status' = "abort"
              /\ Untouched(aaa_stack_map_pop(Machine("fault")), ArgMap(2))
       /\ BadKey("map_drop", 1) =>
              /\ status' = "abort"
              /\ Untouched(aaa_stack_map_drop(Machine("fault")), ArgMap(2))
       /\ status' = "running" =>
              \A map \in 1..Len(maps') :
                  Freed(maps'[map])
                  \/ \A i \in 1..Len(ChainedIn(maps', map)) :
                        KeysIn(maps', variables', strings', map)[i][1]
                            \in {AAA_INTEGER, AAA_BOOLEAN, AAA_STRING}]_vars

\* map_set has ended the program: its key was not an Integer, a Boolean or a
\* Text
UnhashableKeyRefused ==
    /\ last.op = "map_set"
    /\ status = "abort"

(***************************************************************************)
(* C18.  Two values that can be hashed and that aaa_variable_equals finds  *)
(* equal have the same aaa_variable_hash.  Two Texts of the same bytes are *)
(* equal whether or not each owns its bytes, and are the same key: a       *)
(* lookup with one finds the entry stored under the other and map_get      *)
(* pushes its value.                                                       *)
(***************************************************************************)
EqualValuesHashEqually ==
    [][/\ Did("equals") =>
              /\ last'.value <=> Value(Arg(2)) = Value(Arg(1))
              /\ last'.value => last'.lhs_hash = last'.rhs_hash
       /\ (LooksUp("map_get") /\ KeyIsStored) =>
              /\ status' = "running"
              /\ stack' = Below(stack, 2)
                    \o <<StoredUnder(ArgMap(2), Value(Arg(1)))>>
       /\ (LooksUp("map_has_key") /\ KeyIsStored) =>
              /\ status' = "running"
              /\ ValueIn(variables', strings', stack'[Len(stack')])
                    = <<AAA_BOOLEAN, TRUE>>]_vars

\* map_get with a Text that does not own its bytes has pushed the value "/"
\* of the entry whose key is the Text "o" that owns its bytes
OwnedKeyFoundByLiteral ==
    /\ last.op = "map_get"
    /\ status = "running"
    /\ Len(stack) = 2
    /\ IsMapKind(KindAt(2))
    /\ last.owned = "not owned"
    /\ Value(Arg(1)) = <<AAA_STRING, <<47>>>>
    /\ \E i \in 1..Len(ChainedIn(maps, ArgMap(2))) :
          \E item \in {ChainedIn(maps, ArgMap(2))[i]} :
              /\ Value(item.key) = <<AAA_STRING, <<111>>>>
              /\ OwnedBy(item.key) = "owned"
              /\ item.value = Arg(1)

(***************************************************************************)
(* C19.  The calls of aaa_map_iter_next on a new iterator over a map that  *)
(* is left alone hand out the entries of the map one by one, in the order  *)
(* of the buckets and, in a bucket, of its chain; the call that returns    *)
(* false comes when every entry has been handed out, the last bucket's     *)
(* chain included, and leaves *key and *value NULL, and so does every call *)
(* after it.                                                               *)
(***************************************************************************)
\* the key and the value of each item of a map, in bucket-then-chain order
EntriesInOrder(map) ==
    [i \in 1..Len(ChainedIn(maps, map)) |->
        [key |-> ChainedIn(maps, map)[i].key,
         value |-> ChainedIn(maps, map)[i].value]]

IterOnTop == variables[Top].payload

IterationYieldsAll ==
    (last.op = "map_iter_next" /\ status = "running") =>
        \A all \in {EntriesInOrder(map_iters[IterOnTop].map)} :
            /\ Len(last.yielded) <= Len(all)
            /\ last.yielded = SubSeq(all, 1, Len(last.yielded))
            /\ last.value =>
                  /\ locals.key = all[Len(last.yielded)].key
                  /\ locals.value = all[Len(last.yielded)].value
            /\ ~last.value =>
                  /\ last.yielded = all
                  /\ locals = NoLocals
                  /\ ~aaa_map_iter_next_result(Machine("fault"), IterOnTop)

\* aaa_map_iter_next has returned false after one of the two entries of a map
EntrySkipped ==
    /\ last.op = "map_iter_next"
    /\ status = "running"
    /\ ~last.value
    /\ Len(last.yielded) = 1
    /\ maps[map_iters[IterOnTop].map].size = 2

(***************************************************************************)
(* C20.  map_copy pushes a new map that has the size of the map it copies  *)
(* and holds, under each key of that map, a value equal to the one that    *)
(* map holds; the map that is copied stays as it is.                       *)
(***************************************************************************)
\* map_copy is run on a map that another reference keeps alive
CopiesMap == Did("map_copy") /\ IsMapKind(KindAt(1)) /\ MapStays(1)

CopyAfter == variables'[stack'[Len(stack')]].payload

CopyHoldsAll ==
    [][CopiesMap =>
          \A map \in {ArgMap(1)} :
              /\ status' = "running"
              /\ Len(stack') = Len(stack)
              /\ CopyAfter # map
              /\ maps'[CopyAfter].size = maps[map].size
              /\ PairsIn(maps', variables', strings', CopyAfter) = Pairs(map)
              /\ maps'[map].size = maps[map].size
              /\ maps'[map].buckets = maps[map].buckets
              /\ PairsAfter(map) = Pairs(map)]_vars

\* the copy of a map of two entries has one entry
CopyLostEntry ==
    /\ last.op = "map_copy"
    /\ status = "running"
    /\ Len(stack) = 2
    /\ IsMapKind(KindAt(1))
    /\ IsMapKind(KindAt(2))
    /\ maps[ArgMap(2)].size = 2
    /\ maps[ArgMap(1)].size = 1

(***************************************************************************)
(* C21.  vec_pop run straight after vec_push on the same vector pushes a   *)
(* value equal to the one vec_push was given, and leaves the vector with   *)
(* the size and the elements it had before the push.                       *)
(***************************************************************************)
Elements(vec) == ElementsOf(variables, vectors, vec)

PushThenPop ==
    [][(/\ Did("vec_pop")
        /\ last.op = "vec_push"
        /\ status = "running"
        /\ VecOperand(1) = last.vec
        /\ MapStays(1)) =>
           /\ status' = "running"
           /\ Len(stack') = Len(stack)
           /\ ValueIn(variables', strings', stack'[Len(stack')]) = last.pushed
           /\ vectors'[last.vec].size = Len(last.before)
           /\ ElementsOf(variables', vectors', last.vec) = last.before]_vars

\* 1, 2 and 3 were pushed: vec_pop has pushed 3 and has left 1 and 2
PoppedThree ==
    /\ last.op = "vec_pop"
    /\ status = "running"
    /\ Len(stack) = 2
    /\ KindAt(2) = AAA_VECTOR
    /\ Value(Arg(1)) = <<AAA_INTEGER, 3>>
    /\ vectors[VecOperand(2)].size = 2
    /\ Elements(VecOperand(2)) = <<<<AAA_INTEGER, 1>>, <<AAA_INTEGER, 2>>>>

(***************************************************************************)
(* C22.  The size of a vector is at most its capacity.  A vec_push on a    *)
(* vector whose size is its capacity doubles the capacity, no vec_push     *)
(* lowers it, and the elements the vector held stay where they were, the   *)
(* pushed one coming after them: the 17th element of a new vector is at    *)
(* offset 16 of a vector of capacity 32.                                   *)
(***************************************************************************)
LiveVectors == {vec \in 1..Len(vectors) : ~Freed(vectors[vec])}

CapacityDoubles ==
    [][/\ status' = "running" =>
              \A vec \in 1..Len(vectors') :
                  Freed(vectors'[vec])
                  \/ /\ vectors'[vec].size <= vectors'[vec].capacity
                     /\ Len(vectors'[vec].data) = vectors'[vec].size
       /\ (Did("push_vec_empty") /\ status' = "running") =>
              vectors'[variables'[stack'[Len(stack')]].payload].capacity
                  = VectorInitialCapacity
       /\ (Did("vec_push") /\ status' = "running" /\ MapStays(2)) =>
              \A vec \in {VecOperand(2)} :
                  /\ vectors'[vec].capacity =
                        IF vectors[vec].size = vectors[vec].capacity
                        THEN 2 * vectors[vec].capacity
                        ELSE vectors[vec].capacity
                  /\ vectors'[vec].size = vectors[vec].size + 1
                  /\ SubSeq(vectors'[vec].data, 1, vectors[vec].size)
                        = vectors[vec].data
                  /\ ElementsOf(variables', vectors', vec)
                        = Append(Elements(vec), Value(Arg(1)))]_vars

\* vec_get has pushed the 17th element, which is at offset 16 of a vector of
\* capacity 32
SeventeenthAtSixteen ==
    /\ last.op = "vec_get"
    /\ status = "running"
    /\ Len(stack) = 2
    /\ KindAt(2) = AAA_VECTOR
    /\ vectors[VecOperand(2)].size = 17
    /\ vectors[VecOperand(2)].capacity = 32
    /\ Top = vectors[VecOperand(2)].data[16 + 1]
    /\ Value(Arg(1)) = <<AAA_INTEGER, 16>>

(***************************************************************************)
(* C23.  vec_get with an offset that is not below the size and vec_pop on  *)
(* an empty vector end in abort.  vec_set with such an offset, a negative  *)
(* int operand included, does not: it answers false and leaves the size of *)
(* the vector, its elements and their reference counts as they were.       *)
(***************************************************************************)
\* the int at depth d is an offset of the vector at depth d + 1, as a size_t
OffsetAt(d) == variables[Arg(d)].payload

InRangeAt(d) ==
    OffsetAt(d) >= 0 /\ OffsetAt(d) < vectors[VecOperand(d + 1)].size

RefCounts(vs, xs, vec) ==
    [i \in 1..Len(xs[vec].data) |-> vs[xs[vec].data[i]].ref_count]

OnVector(op, d) ==
    Did(op) /\ KindAt(d + 1) = AAA_VECTOR /\ KindAt(d) = AAA_INTEGER

OutOfRangeAsymmetry ==
    [][/\ OnVector("vec_get", 1) =>
              IF InRangeAt(1)
              THEN /\ status' = "running"
                   /\ stack'[Len(stack')]
                         = vectors[VecOperand(2)].data[OffsetAt(1) + 1]
              ELSE status' = "abort"
       /\ (Did("vec_pop") /\ KindAt(1) = AAA_VECTOR) =>
              (status' = "abort") = (vectors[VecOperand(1)].size = 0)
       /\ (OnVector("vec_set", 2) /\ KindAt(1) # "none" /\ MapStays(3)) =>
              \A vec \in {VecOperand(3)} :
                  /\ status' = "running"
                  /\ ValueIn(variables', strings', stack'[Len(stack')])
                        = <<AAA_BOOLEAN, InRangeAt(2)>>
                  /\ vectors'[vec].size = vectors[vec].size
                  /\ ~InRangeAt(2) =>
                        /\ vectors'[vec].data = vectors[vec].data
                        /\ ElementsOf(variables', vectors', vec) = Elements(vec)
                        /\ RefCounts(variables', vectors', vec)
                              = RefCounts(variables, vectors, vec)
                  /\ InRangeAt(2) =>
                        ElementsOf(variables', vectors', vec)
                            = [Elements(vec) EXCEPT ![OffsetAt(2) + 1] = Value(Arg(1))]]_vars

\* vec_set with the offset -1 has answered false on a vector of two elements
NegativeOffsetRefused ==
    /\ last.op = "vec_set"
    /\ status = "running"
    /\ last.offset = -1
    /\ Len(stack) = 2
    /\ KindAt(2) = AAA_VECTOR
    /\ Value(Arg(1)) = <<AAA_BOOLEAN, FALSE>>
    /\ vectors[VecOperand(2)].size = 2

(***************************************************************************)
(* C24.  The calls of aaa_vector_iter_next on a new iterator over a vector *)
(* that is left alone hand out the elements at the offsets 0, 1, ..,       *)
(* size - 1 in this order; the call after the last one returns false,      *)
(* releases the item that the loop holds and leaves *item NULL; a call     *)
(* after that returns false and changes nothing.                           *)
(***************************************************************************)
\* what the loop has handed out is the start of the vector, and all of it
\* when the call has returned false
HandedOutInOrder ==
    (last.op = "vec_iter_next" /\ status = "running") =>
        \A all \in {vectors[vector_iters[IterOnTop].vector].data} :
            /\ Len(last.yielded) <= Len(all)
            /\ last.yielded = SubSeq(all, 1, Len(last.yielded))
            /\ last.value => locals.item = all[Len(last.yielded)]
            /\ ~last.value =>
                  /\ last.yielded = all
                  /\ locals.item = NULL
                  /\ ~aaa_vector_iter_next_result(Machine("fault"), IterOnTop)
                  /\ aaa_vector_iter_next(Machine("fault"), IterOnTop, locals.item)
                        = Machine("fault")

VectorIterationYieldsAll ==
    [][Did("vec_iter_next") =>
          /\ status' = "running"
          /\ HandedOutInOrder'
          /\ (~last'.value /\ locals.item # NULL) =>
                variables'[locals.item].ref_count
                    = variables[locals.item].ref_count - 1
          /\ (last'.value /\ locals.item # NULL /\ locals'.item # locals.item) =>
                /\ variables'[locals.item].ref_count
                      = variables[locals.item].ref_count - 1
                /\ variables'[locals'.item].ref_count
                      = variables[locals'.item].ref_count + 1]_vars

\* the call after the third item of a vector of three has returned false
ThreeHandedOut ==
    /\ last.op = "vec_iter_next"
    /\ status = "running"
    /\ ~last.value
    /\ Len(last.yielded) = 3
    /\ vectors[vector_iters[IterOnTop].vector].size = 3
    /\ locals.item = NULL

(***************************************************************************)
(* C25.  vec_copy leaves a new vector on the stack that has the size of    *)
(* the original and, element by element, equal values, and that shares no  *)
(* variable and no vector with it; a vec_push, vec_pop, vec_set or         *)
(* vec_clear on one of the two leaves the size and the elements of the     *)
(* other as they were.                                                     *)
(***************************************************************************)
\* the value of a variable, a vector by the values of its elements
RECURSIVE DeepValue(_, _, _)
DeepValue(vs, xs, var) ==
    IF var \notin 1..Len(vs) THEN <<"garbage">>
    ELSE IF Freed(vs[var]) THEN <<"freed">>
    ELSE IF vs[var].kind # AAA_VECTOR THEN <<vs[var].kind, vs[var].payload>>
    ELSE <<AAA_VECTOR,
           [i \in 1..Len(xs[vs[var].payload].data) |->
               DeepValue(vs, xs, xs[vs[var].payload].data[i])]>>

DeepElements(vs, xs, vec) ==
    [i \in 1..Len(xs[vec].data) |-> DeepValue(vs, xs, xs[vec].data[i])]

\* the vectors and the variables that a vector holds, itself included
RECURSIVE StateOf(_, _, _)
StateOf(vs, xs, vec) ==
    {<<"vector", vec>>} \cup
    UNION {{<<"variable", xs[vec].data[i]>>} \cup
           (IF xs[vec].data[i] \in 1..Len(vs)
               /\ vs[xs[vec].data[i]].kind = AAA_VECTOR
            THEN StateOf(vs, xs, vs[xs[vec].data[i]].payload)
            ELSE {}) : i \in 1..Len(xs[vec].data)}

\* the two vectors of the program and a second reference to the upper one
BothAtWork ==
    /\ Len(stack) >= 3
    /\ variables[stack[1]].kind = AAA_VECTOR
    /\ variables[stack[2]].kind = AAA_VECTOR
    /\ variables[stack[1]].payload # variables[stack[2]].payload
    /\ stack[3] = stack[2]

CopySharesNothing ==
    [][/\ Did("vec_copy") =>
             /\ status' = "running"
             /\ \A original \in {VecOperand(1)} :
                \A copy \in {variables'[stack'[Len(stack')]].payload} :
                   /\ copy # original
                   /\ copy > Len(vectors) \/ Freed(vectors[copy])
                   /\ variables'[stack'[1]].payload = original
                   /\ vectors'[copy].size = vectors[original].size
                   /\ DeepElements(variables', vectors', copy)
                         = DeepElements(variables, vectors, original)
                   /\ StateOf(variables', vectors', copy)
                         \cap StateOf(variables', vectors', original) = {}
                   /\ vectors'[original].size = vectors[original].size
                   /\ DeepElements(variables', vectors', original)
                         = DeepElements(variables, vectors, original)
       /\ (/\ last'.op \in {"vec_push", "vec_pop", "vec_set", "vec_clear"}
           /\ BothAtWork
           /\ status' = "running") =>
             \A other \in {variables[stack[1]].payload} :
                /\ variables'[stack'[1]].payload = other
                /\ vectors'[other].size = vectors[other].size
                /\ DeepElements(variables', vectors', other)
                      = DeepElements(variables, vectors, other)]_vars

\* the original, the first vector of the program, was cleared: the copy
\* below it on the stack holds the Integer and the empty vector still
CopyOutlivesClear ==
    /\ last.op = "vec_clear"
    /\ status = "running"
    /\ Len(stack) = 2
    /\ variables[stack[1]].kind = AAA_VECTOR
    /\ variables[stack[2]].kind = AAA_VECTOR
    /\ variables[stack[2]].payload < variables[stack[1]].payload
    /\ vectors[variables[stack[2]].payload].size = 0
    /\ DeepElements(variables, vectors, variables[stack[1]].payload)
          = <<<<AAA_INTEGER, 1>>, <<AAA_VECTOR, <<>>>>>>

(***************************************************************************)
(* C26.  aaa_struct_create_field aborts exactly when the struct has the    *)
(* field already; aaa_struct_set_field and aaa_struct_get_field abort      *)
(* exactly when it does not have it.  After a create or a set that did not *)
(* abort, aaa_struct_get_field finds the value given under that name, and  *)
(* a set leaves the names of the fields as they were.                      *)
(***************************************************************************)
\* aaa_struct_get_field on struct s of machine m finds the Integer given
GetsField(m, s, name, given) ==
    /\ aaa_struct_get_field(m, s, name).status = "running"
    /\ ValueIn(m.variables, m.strings, aaa_struct_get_field_result(m, s, name))
          = <<AAA_INTEGER, given>>

FieldRules ==
    [][/\ Did("create_field") =>
             \A s \in {StructAt(1)} :
                /\ status' \in {"running", "abort"}
                /\ status' = "abort" <=> last'.name \in Fields(s)
                /\ status' = "running" =>
                      /\ \A after \in {Machine("fault")}' :
                            GetsField(after, s, last'.name, last'.given)
                      /\ Fields(s)' = Fields(s) \cup {last'.name}
       /\ Did("field_update") =>
             \A s \in {StructAt(3)} :
                /\ status' \in {"running", "abort"}
                /\ status' = "abort" <=> last'.name \notin Fields(s)
                /\ status' = "running" =>
                      /\ \A after \in {Machine("fault")}' :
                            GetsField(after, s, last'.name, last'.given)
                      /\ Fields(s)' = Fields(s)
       /\ Did("field_query") =>
             \A s \in {StructAt(2)} :
                /\ status' \in {"running", "abort"}
                /\ status' = "abort" <=> last'.name \notin Fields(s)
                /\ status' = "running" =>
                      /\ last'.value = aaa_struct_get_field_result(
                                           Machine("fault"), s, last'.name)
                      /\ stack' = Append(Below(stack, 2), last'.value)
                      /\ Fields(s)' = Fields(s)]_vars

\* field_update has written 1 to the field "a" of a struct with the fields
\* "a" and "b"
FieldWritten ==
    /\ last.op = "field_update"
    /\ status = "running"
    /\ last.name = <<97>>
    /\ last.given = 1
    /\ last.fields = {<<97>>, <<98>>}
    /\ Fields(StructAt(1)) = {<<97>>, <<98>>}
    /\ GetsField(Machine("fault"), StructAt(1), <<97>>, 1)
    /\ GetsField(Machine("fault"), StructAt(1), <<98>>, 0)

(***************************************************************************)
(* C27.  str_split of a text that is not empty and does not end with the   *)
(* separator, on a separator that is not empty and occurs k times in the   *)
(* text (occurrences taken from left to right, none overlapping the one    *)
(* before), leaves a vector of k + 1 fragments: the bytes before the first *)
(* occurrence, between each two, and after the last, the empty text        *)
(* between two adjacent occurrences and before a leading one.              *)
(***************************************************************************)
OccursAt(raw, sep, p) ==
    p + Len(sep) <= Len(raw) /\ SubSeq(raw, p + 1, p + Len(sep)) = sep

\* the offsets of the occurrences of sep in raw from the offset from on
RECURSIVE Occurrences(_, _, _)
Occurrences(raw, sep, from) ==
    IF \A p \in from..Len(raw) : ~OccursAt(raw, sep, p) THEN <<>>
    ELSE LET first == CHOOSE p \in from..Len(raw) :
                         /\ OccursAt(raw, sep, p)
                         /\ \A q \in from..(p - 1) : ~OccursAt(raw, sep, q)
         IN  <<first>> \o Occurrences(raw, sep, first + Len(sep))

EndsWith(raw, sep) ==
    Len(sep) <= Len(raw) /\ SubSeq(raw, Len(raw) - Len(sep) + 1, Len(raw)) = sep

\* the bytes of raw around the occurrences
Between(raw, sep, occ) ==
    [i \in 1..(Len(occ) + 1) |->
        SubSeq(raw,
               (IF i = 1 THEN 0 ELSE occ[i - 1] + Len(sep)) + 1,
               IF i = Len(occ) + 1 THEN Len(raw) ELSE occ[i])]

\* the texts that a vector of texts holds
FragmentsIn(vs, ss, xs, vec) ==
    [i \in 1..Len(xs[vec].data) |->
        IF vs[xs[vec].data[i]].kind = AAA_STRING
        THEN ss[vs[xs[vec].data[i]].payload].raw
        ELSE <<"not a text">>]

Fragments(vec) == FragmentsIn(variables, strings, vectors, vec)

SplitGivesFragments ==
    [][(/\ Did("str_split")
        /\ last'.sep # <<>>
        /\ last'.text # <<>>
        /\ ~EndsWith(last'.text, last'.sep)) =>
          /\ status' = "running"
          /\ flags' = flags
          /\ variables'[stack'[Len(stack')]].kind = AAA_VECTOR
          /\ \A occ \in {Occurrences(last'.text, last'.sep, 0)} :
             \A vec \in {variables'[stack'[Len(stack')]].payload} :
                /\ vectors'[vec].size = Len(occ) + 1
                /\ Fragments(vec)' = Between(last'.text, last'.sep, occ)]_vars

\* "a,b,,c" split on "," has given "a", "b", "" and "c"
SplitOnCommas ==
    /\ last.op = "str_split"
    /\ status = "running"
    /\ last.text = <<97, 44, 98, 44, 44, 99>>
    /\ last.sep = <<44>>
    /\ Fragments(variables[stack[Len(stack)]].payload)
          = <<<<97>>, <<98>>, <<>>, <<99>>>>

(***************************************************************************)
(* C28.  str_join, given the separator and the vector that str_split has   *)
(* made of a text that does not end with the separator, leaves a text of   *)
(* the same bytes on the stack.                                            *)
(***************************************************************************)
JoinRebuildsText ==
    [][(Did("str_join") /\ ~EndsWith(last'.text, last'.sep)) =>
          /\ status' = "running"
          /\ variables'[stack'[Len(stack')]].kind = AAA_STRING
          /\ strings'[variables'[stack'[Len(stack')]].payload].raw
                = last'.text]_vars

\* the join of the fragments of "a,a" has ended in the use of the buffer
\* that aaa_buffer_to_string had freed
JoinUsedFreedBuffer ==
    /\ last.op = "str_join"
    /\ last.text = <<97, 44, 97>>
    /\ last.sep = <<44>>
    /\ status = "fault"
    /\ "buffer_use_after_free" \in flags

(***************************************************************************)
(* C30.  str_substr pushes the bytes of the text at the offsets start up   *)
(* to end - 1 and true exactly when 0 <= start <= end <= length (an        *)
(* operand below 0 is a size_t above every length); in every other case it *)
(* pushes the empty text and false.  It reads no byte outside the text.    *)
(***************************************************************************)
SubstrInRange(text, start, end) ==
    0 <= start /\ start <= end /\ end <= Len(text)

SubstrChecksRange ==
    [][Did("str_substr") =>
          /\ status' = "running"
          /\ flags' = flags
          /\ Len(stack') = 2
          /\ variables'[stack'[1]].kind = AAA_STRING
          /\ variables'[stack'[2]].kind = AAA_BOOLEAN
          /\ \A text \in {last'.text} : \A start \in {last'.start} :
             \A end \in {last'.end} :
                /\ variables'[stack'[2]].payload
                      = SubstrInRange(text, start, end)
                /\ strings'[variables'[stack'[1]].payload].raw
                      = IF SubstrInRange(text, start, end)
                        THEN SubSeq(text, start + 1, end)
                        ELSE <<>>]_vars

\* str_substr with the start -1 and the end 4 on a text of 3 bytes has pushed
\* the empty text and false
SubstrRefused ==
    /\ last.op = "str_substr"
    /\ status = "running"
    /\ Len(last.text) = 3
    /\ last.start = -1
    /\ last.end = 4
    /\ variables[stack[2]].payload = FALSE
    /\ strings[variables[stack[1]].payload].raw = <<>>

(***************************************************************************)
(* C29.  Every str_split that has begun returns or fails: the loop of      *)
(* aaa_string_split ends for every text and every separator, the empty     *)
(* separator too, because every iteration moves start forward (an empty    *)
(* separator is never matched).  start, the text and the separator are all *)
(* that the loop condition and the next start depend on, so an iteration   *)
(* that leaves start where it was is followed by the same iteration again, *)
(* each one pushing a fragment.                                            *)
(***************************************************************************)
SplitMovesForward ==
    [][Did("split_iterate") =>
          /\ status' = "running"
          /\ locals'.start > locals.start]_vars

\* the same as a property of the runs in which the program is not stopped
SplitTerminates ==
    (last.op = "split_enter") ~> (last.op = "str_split" \/ status # "running")

\* an iteration on the empty separator has pushed a second empty fragment
\* and left start where it was, below the length of the text
SplitStoodStill ==
    /\ last.op = "split_iterate"
    /\ status = "running"
    /\ strings[locals.sep].raw = <<>>
    /\ locals.start = last.from
    /\ locals.start < strings[locals.string].length
    /\ Fragments(locals.vector) = <<<<>>, <<>>>>

(***************************************************************************)
(* C31: str_to_int parses the whole text strictly.  It pushes the integer  *)
(* and true exactly when the text is an optional sign followed by at least *)
(* one decimal digit and the value fits an int; for every other text, the  *)
(* empty text and the texts with white space before or behind the number   *)
(* among them, it pushes 0 and false, and it never aborts.                 *)
(***************************************************************************)
\* an optional sign and at least one digit, and nothing else
StrictDecimal(text) ==
    LET digits == IF text # <<>> /\ Head(text) \in {43, 45}
                  THEN Tail(text) ELSE text
    IN  /\ digits # <<>>
        /\ \A i \in 1..Len(digits) : digits[i] \in IsDigit
        /\ ConvertedFitsInt(text[1] = 45, digits)

StrictValue(text) ==
    IF ~StrictDecimal(text) THEN 0
    ELSE IF Head(text) \in {43, 45}
         THEN ConvertedInt(Head(text) = 45, Tail(text))
         ELSE ConvertedInt(FALSE, text)

ToIntIsStrict ==
    [][Did("str_to_int") =>
          /\ status' = "running"
          /\ Len(stack') = 2
          /\ variables'[stack'[2]].kind = AAA_BOOLEAN
          /\ variables'[stack'[2]].payload = StrictDecimal(last'.text)
          /\ variables'[stack'[1]].kind = AAA_INTEGER
          /\ variables'[stack'[1]].payload = StrictValue(last'.text)]_vars

\* the empty text has been converted, to 0 and true
EmptyTextParsed ==
    /\ last.op = "str_to_int"
    /\ last.text = <<>>
    /\ status = "running"
    /\ variables[stack[2]].payload = TRUE
    /\ variables[stack[1]].payload = 0

(***************************************************************************)
(* C32: the repr of a text s is a double quote, the bytes of s with each   *)
(* of the ten control and quote characters replaced by its two-byte        *)
(* backslash escape and every other byte as it is, and a closing double    *)
(* quote; taking the quotes off and unescaping gives the bytes of s.       *)
(***************************************************************************)
\* the letter behind the backslash for each of the ten bytes
EscapeLetter ==
    [c \in {7, 8, 9, 10, 11, 12, 13, 34, 39, 92} |->
        CASE c = 7 -> 97 [] c = 8 -> 98 [] c = 9 -> 116 [] c = 10 -> 110
          [] c = 11 -> 118 [] c = 12 -> 102 [] c = 13 -> 114
          [] OTHER -> c]

RECURSIVE Quoted(_)
Quoted(text) ==
    IF text = <<>> THEN <<>>
    ELSE (IF Head(text) \in DOMAIN EscapeLetter
          THEN <<92, EscapeLetter[Head(text)]>> ELSE <<Head(text)>>)
         \o Quoted(Tail(text))

RECURSIVE Unescaped(_)
Unescaped(bytes) ==
    IF bytes = <<>> THEN <<>>
    ELSE IF Head(bytes) = 92 /\ Len(bytes) >= 2
    THEN <<CHOOSE c \in DOMAIN EscapeLetter : EscapeLetter[c] = bytes[2]>>
         \o Unescaped(SubSeq(bytes, 3, Len(bytes)))
    ELSE <<Head(bytes)>> \o Unescaped(Tail(bytes))

ReprQuotesText ==
    [][(Did("repr") /\ last'.kind = AAA_STRING) =>
          /\ status' = "running"
          /\ Len(stack') = 1
          /\ variables'[stack'[1]].kind = AAA_STRING
          /\ \A raw \in {strings'[variables'[stack'[1]].payload].raw} :
                /\ raw = <<34>> \o Quoted(last'.text) \o <<34>>
                /\ Unescaped(SubSeq(raw, 2, Len(raw) - 1)) = last'.text]_vars

\* the repr of a text has released the buffer that was freed already
ReprOfTextUndefined ==
    /\ last.op = "repr"
    /\ last.kind = AAA_STRING
    /\ last.text = <<92, 110>>
    /\ "buffer_use_after_free" \in flags

(***************************************************************************)
(* C33: repr on a stack whose top is a value of any kind (an integer, a    *)
(* boolean, a text, a vector, a map, a set, a struct or an iterator) pops  *)
(* the value and pushes exactly one text: the stack keeps its size and the *)
(* run is never fatal.                                                     *)
(***************************************************************************)
ReprPushesText ==
    [][Did("repr") =>
          /\ status' = "running"
          /\ Len(stack') = Len(stack)
          /\ variables'[stack'[Len(stack')]].kind = AAA_STRING]_vars

\* the repr of a struct has aborted the run
ReprOfStructAborted ==
    /\ last.op = "repr"
    /\ last.kind = AAA_STRUCT
    /\ status = "abort"

(***************************************************************************)
(* C34: an opcode that reports the success of a system call pushes the     *)
(* same number of values whether the call succeeds or fails (one for       *)
(* connect and fsync, two for write and waitpid), the last of them one     *)
(* boolean that is true exactly when the call succeeded, and it releases   *)
(* every text it has popped on every path.                                 *)
(***************************************************************************)
IoOpcodes == {"write", "connect", "fsync", "waitpid"}

\* the size of the stack after the opcode: operands off, results on
IoStackAfter(op) ==
    CASE op.op = "write" -> Len(op.before) - 2 + 2
      [] op.op = "connect" -> Len(op.before) - 3 + 1
      [] op.op = "fsync" -> Len(op.before) - 1 + 1
      [] op.op = "waitpid" -> Len(op.before) - 2 + 2

IoReportsSuccess ==
    [][last'.op \in IoOpcodes =>
          /\ status' = "running"
          /\ Len(stack') = IoStackAfter(last')
          /\ variables'[stack'[Len(stack')]].kind = AAA_BOOLEAN
          /\ variables'[stack'[Len(stack')]].payload = last'.succeeded
          /\ \A s \in 1..Len(strings') :
                s = last'.operand => Freed(strings'[s])]_vars

\* fsync has failed and has pushed false and true
FsyncPushedTwo ==
    /\ last.op = "fsync"
    /\ ~last.succeeded
    /\ Len(stack) = 2
    /\ variables[stack[1]].payload = FALSE
    /\ variables[stack[2]].payload = TRUE

(***************************************************************************)
(* C35: after map_clear the map is like a new empty map: its size is 0, no *)
(* bucket refers to a released entry, has_key is false for every key, and  *)
(* no later set, get, pop, clear or release of the map reads or frees an   *)
(* entry that was released.                                                *)
(***************************************************************************)
\* the entries the buckets of the live maps refer to
EntriesOf(map) == Flatten(maps[map].buckets)

ClearedMapIsNew ==
    [][/\ Did("map_clear") =>
             /\ status' = "running"
             /\ \A map \in 1..Len(maps') :
                   ~Freed(maps'[map]) =>
                       /\ maps'[map].size = 0
                       /\ Flatten(maps'[map].buckets) = <<>>
       /\ "use_after_free" \in flags' => "use_after_free" \in flags]_vars

\* an opcode has read an entry that map_clear had released
ClearedEntryRead ==
    /\ last.op \in {"map_has_key", "map_set", "map_get", "map_pop", "map_clear"}
    /\ "use_after_free" \in flags
    /\ \E map \in 1..Len(maps) : \E i \in 1..Len(EntriesOf(map)) :
          EntriesOf(map)[i].freed

(***************************************************************************)
(* C36: aaa_vector_equals is a pure query: it returns true exactly when    *)
(* the two vectors have the same size and their elements are equal pair by *)
(* pair, and after it has returned the reference count of every element of *)
(* both vectors is what it was before the call.                            *)
(***************************************************************************)
\* the kinds and payloads of the elements of the vector at the place d of
\* the stack (1 is the bottom)
ValuesAt(d) ==
    LET data == vectors[variables[stack[d]].payload].data
        size == vectors[variables[stack[d]].payload].size
    IN  [i \in 1..size |->
            <<variables[data[i]].kind, variables[data[i]].payload>>]

EqualsIsPure ==
    [][Did("vector_equals") =>
          /\ status' = "running"
          /\ last'.value = (ValuesAt(1) = ValuesAt(2))
          /\ \A v \in 1..Len(variables) :
                variables'[v].ref_count = variables[v].ref_count]_vars

\* two vectors of one element each were compared and dropped, and their
\* elements are still there
EqualsLeftReference ==
    /\ last.op = "drop"
    /\ stack = <<>>
    /\ LiveCount(vectors) = 0
    /\ LiveCount(variables) = 2

RECURSIVE AllReplaced(_, _, _)
AllReplaced(text, search, replace) ==
    IF text = <<>> THEN <<>>
    ELSE IF OccursAt(text, search, 0)
    THEN replace \o AllReplaced(SubSeq(text, Len(search) + 1, Len(text)),
                                search, replace)
    ELSE <<Head(text)>> \o AllReplaced(Tail(text), search, replace)

ReplaceReplacesAll ==
    [][Did("str_replace") =>
          /\ status' = "running"
          /\ Len(stack') = 1
          /\ variables'[stack'[1]].kind = AAA_STRING
          /\ strings'[variables'[stack'[1]].payload].raw =
                AllReplaced(last'.text, last'.search, last'.replace)]_vars

\* the comma at the end of "a," was to become "x" and is gone
EndOccurrenceLost ==
    /\ last.op = "str_replace"
    /\ status = "running"
    /\ last.text = <<97, 44>>
    /\ last.search = <<44>>
    /\ last.replace = <<120>>
    /\ strings[variables[stack[1]].payload].raw = <<97>>

(***************************************************************************)
(* C39: str_find_after never reads outside of the text s it searches, for  *)
(* every start: a start beyond the length of s and a negative operand of   *)
(* the opcode included.                                                    *)
(***************************************************************************)
FindStaysInside ==
    [][Did("str_find_after") =>
          /\ status' = "running"
          /\ "read_outside_string" \notin flags']_vars

\* the search has started beyond the NUL of the text
FindReadOutside ==
    /\ last.op = "str_find_after"
    /\ last.start > Len(last.text)
    /\ "read_outside_string" \in flags

(***************************************************************************)
(* C40: the legacy runtime of src/aaa/transpiler/aaa.c and the runtime of  *)
(* src/c are equivalent to an observer of the stack: after every sequence  *)
(* of push_int, push_bool, dup, swap, over, rot and drop that finds its    *)
(* operands, both stacks hold the same sequence of values.                 *)
(***************************************************************************)
\* the values on the stack of src/c, a boolean as 0 or 1
StackValues ==
    [i \in 1..Len(stack) |->
        [kind |-> variables[stack[i]].kind,
         payload |-> IF variables[stack[i]].kind = AAA_BOOLEAN
                     THEN (IF variables[stack[i]].payload THEN 1 ELSE 0)
                     ELSE variables[stack[i]].payload]]

LegacyValues == SubSeq(legacy.data, 1, legacy.size)

RuntimesAgree ==
    /\ status = "running"
    /\ legacy.status = "running"
    /\ StackValues = LegacyValues

\* over has run on 0 and 1: the stack of src/c holds 0, 1, 0 and the legacy
\* stack does not
OverDiffers ==
    /\ last.op = "over"
    /\ StackValues = <<[kind |-> AAA_INTEGER, payload |-> 0],
                       [kind |-> AAA_INTEGER, payload |-> 1],
                       [kind |-> AAA_INTEGER, payload |-> 0]>>
    /\ LegacyValues # StackValues

====
